---------------------------- MODULE Spec2Model ----------------------------
(***************************************************************************)
(* Schema harmonization engine of the LFS harmonizer                       *)
(* (src/lfs_harmonizer_complete_v8.py): the column resolver get_column,    *)
(* the era-dependent translators, the release processor process_file and   *)
(* the orchestrator process_all_batched.                                   *)
(*                                                                         *)
(* Values.  A cell of a pandas column is a record [t, v]:                  *)
(*   t = "nan"     a missing value (NaN / None)                            *)
(*   t = "num"     a number, v its value                                   *)
(*   t = "blank"   a string that is empty after strip()                    *)
(*   t = "text"    a non-blank string that does not parse as a number      *)
(*   t = "numstr"  a string that parses as the number v                    *)
(* A column is [dtype, vals]: dtype "num" holds nan/num cells, dtype       *)
(* "object" holds nan and string cells.  Python's None is the empty tuple  *)
(* and a present optional value x is <<x>>.                                *)
(***************************************************************************)
EXTENDS Integers, Sequences, FiniteSets, TLC

VARIABLES
  call,               \* the pure-function harness: one call of a translator or of the per-field step
  files,              \* the input directory: the deduplicated, name-sorted releases
  i,                  \* process_all_batched: 1-based index of the release being processed
  pc,                 \* position inside the loop body / process_file
  df,                 \* process_file: the raw release read by read_csv (None before)
  year,               \* process_file: the release year (optional)
  month,              \* process_file: the release month (optional)
  out_df,             \* process_file: the harmonized table under construction
  col_reports,        \* process_file: per-field diagnostics
  log_messages,       \* the run log
  all_parquet_files,  \* persisted per-release tables
  all_file_reports,   \* per-release diagnostic records
  errors,             \* (file, error) pairs of fatal errors
  total_rows,         \* running row total
  batch_size,         \* process_all_batched: the batch_size argument
  batch_start,        \* combination loop: index of the first table of the batch
  first_batch,        \* combination loop: no batch written yet
  combined_file,      \* the combined artifact on disk (None before it is written)
  outputs,            \* the diagnostics files on disk (None: not written)
  run_result          \* how process_all_batched ended, as its caller sees it

(* The state of the steps after the loop over the releases. *)
post_vars == << batch_size, batch_start, first_batch, combined_file, outputs, run_result >>

vars == << call, files, i, pc, df, year, month, out_df, col_reports,
           log_messages, all_parquet_files, all_file_reports, errors, total_rows,
           batch_size, batch_start, first_batch, combined_file, outputs, run_result >>

None == << >>
Some(x) == << x >>

NaN == [t |-> "nan", v |-> 0]
Num(n) == [t |-> "num", v |-> n]
Blank == [t |-> "blank", v |-> 0]
Text == [t |-> "text", v |-> 0]
NumStr(n) == [t |-> "numstr", v |-> n]

(* Series.notna(): every cell but NaN, strings included. *)
notna(c) == c.t # "nan"

(* int(series.notna().sum()) *)
notna_sum(vals) == Cardinality({k \in 1..Len(vals) : notna(vals[k])})

(* COLUMN_PRIORITY: canonical field -> ordered list of source variants. *)
COLUMN_PRIORITY ==
     ("PUFREG" :> <<"PUFREG", "CREG", "REG">>)
  @@ ("PUFSVYYR" :> <<"PUFSVYYR", "SVYYR", "CYEAR">>)
  @@ ("PUFSVYMO" :> <<"PUFSVYMO", "SVYMO", "CMONTH">>)
  @@ ("PUFHHNUM" :> <<"PUFHHNUM", "HHNUM">>)
  @@ ("PUFPSU" :> <<"PUFPSU", "PSU", "PSU_NO", "STRATUM">>)
  @@ ("PUFHHSIZE" :> <<"PUFHHSIZE", "HHID">>)
  @@ ("PUFRPL" :> <<"PUFRPL", "CRPM">>)
  @@ ("PUFPWGTPRV" :> <<"PUFPWGTPRV", "PUFPWGT", "PUFPWGTFIN", "CFWGT", "FWGT", "PWGT">>)
  @@ ("PUFC01_LNO" :> <<"PUFC01_LNO", "C101_LNO", "CC101_LNO", "C04_LNO", "A01_LNO">>)
  @@ ("PUFC03_REL" :> <<"PUFC03_REL", "C05_REL", "CC05_REL", "C03_NEWMEM", "CC03_NEWMEM">>)
  @@ ("PUFC04_SEX" :> <<"PUFC04_SEX", "C06_SEX", "CC06_SEX">>)
  @@ ("PUFC05_AGE" :> <<"PUFC05_AGE", "C07_AGE", "CC07_AGE">>)
  @@ ("PUFC06_MSTAT" :> <<"PUFC06_MSTAT", "C08_MSTAT", "C08_MS", "CC08_MSTAT", "CC08_MS">>)
  @@ ("PUFC07_GRADE" :> <<"PUFC07_GRADE", "J12C09_GRADE", "C09_GRD", "C09_GRADE", "CC09_GRADE">>)
  @@ ("PUFC08_CURSCH" :> <<"PUFC08_CURSCH", "A02_CURSCH", "A02_CSCH">>)
  @@ ("PUFC09_GRADTECH" :> <<"PUFC09_GRADTECH", "J12C11_GRADTECH", "J12C11COURSE">>)
  @@ ("PUFC10_CONWR" :> <<"PUFC10_CONWR", "PUFC08_CONWR", "C10_CONWR", "C10_CNWR", "CC10_CONWR">>)
  @@ ("PUFC11_WORK" :> <<"PUFC11_WORK", "PUFC09_WORK", "C13_WORK", "CC13_WORK", "CC01_WORK", "B01_WORK">>)
  @@ ("PUFC12_JOB" :> <<"PUFC12_JOB", "PUFC10_JOB", "C14_JOB", "CC14_JOB", "CC02_JOB", "B02_JOB">>)
  @@ ("PUFNEWEMPSTAT" :> <<"PUFNEWEMPSTAT", "NEWEMPSTAT", "CEMPST1", "CEMPST2", "NEWEMPST">>)
  @@ ("PUFC14_PROCC" :> <<"PUFC14_PROCC", "PUFC13_PROCC", "C16_PROCC", "C16_PROC", "CC16_PROCC", "C16F2_PROCC", "C16L2_PROCC", "CC12_USOCC", "J01_USOCC", "J01_USOC">>)
  @@ ("PUFC16_PKB" :> <<"PUFC16_PKB", "PUFC15_PKB", "C18_PKB", "CC18_PKB", "C18F2_PKB", "C18L2_PKB", "CC06_IND", "J03_OKB">>)
  @@ ("PUFC17_NATEM" :> <<"PUFC17_NATEM", "PUFC16_NATEM", "C20_NATEM", "C20_NTEM", "CC20_NATEM">>)
  @@ ("PUFC18_PNWHRS" :> <<"PUFC18_PNWHRS", "PUFC17_PNWHRS", "C21_PNWHRS", "C21_PWHR", "CC21_PNWHRS", "CC18_PNWHRS">>)
  @@ ("PUFC19_PHOURS" :> <<"PUFC19_PHOURS", "PUFC18_PHOURS", "C22_PHOURS", "C22_PHRS", "CC22_PHOURS">>)
  @@ ("PUFC20_PWMORE" :> <<"PUFC20_PWMORE", "PUFC19_PWMORE", "C23_PWMORE", "C23_PWMR", "CC23_PWMORE">>)
  @@ ("PUFC21_PLADDW" :> <<"PUFC21_PLADDW", "PUFC20_PLADDW", "C24_PLADDW", "C24_PLAW", "CC24_PLADDW">>)
  @@ ("PUFC22_PFWRK" :> <<"PUFC22_PFWRK", "PUFC20B_FTWORK", "C25_PFWRK", "C25_PFWK", "CC25_PFWRK">>)
  @@ ("PUFC23_PCLASS" :> <<"PUFC23_PCLASS", "PUFC21_PCLASS", "C19_PCLASS", "C19PCLAS", "CC19_PCLASS">>)
  @@ ("PUFC24_PBASIS" :> <<"PUFC24_PBASIS", "C26_PBASIS", "C26_PBIS", "CC26_PBASIS">>)
  @@ ("PUFC25_PBASIC" :> <<"PUFC25_PBASIC", "C27_PBASIC", "C27_PBSC", "CC27_PBASIC", "C36_OBASIC", "C36_OBIC">>)
  @@ ("PUFC26_OJOB" :> <<"PUFC26_OJOB", "PUFC22_OJOB", "C28_OJOB", "CC28_OJOB">>)
  @@ ("PUFC27_NJOBS" :> <<"PUFC27_NJOBS", "A03_JOBS">>)
  @@ ("PUFC28_THOURS" :> <<"PUFC28_THOURS", "PUFC23_THOURS", "A04_THOURS", "A04_THRS">>)
  @@ ("PUFC29_WWM48H" :> <<"PUFC29_WWM48H", "PUFC24_WWM48H", "A05_RWM48H", "A05_R48H">>)
  @@ ("PUFC30_LOOKW" :> <<"PUFC30_LOOKW", "PUFC25_LOOKW", "C38_LOOKW", "C38_LOKW", "CC38_LOOKW", "CC30_LOOKW">>)
  @@ ("PUFC31_FLWRK" :> <<"PUFC31_FLWRK", "PUFC25B_FTWORK", "C41_FLWRK", "C41_FLWK", "CC41_FLWRK">>)
  @@ ("PUFC32_JOBSM" :> <<"PUFC32_JOBSM", "C39_JOBSM", "C39_JBSM", "CC39_JOBSM", "CC32_JOBSM">>)
  @@ ("PUFC33_WEEKS" :> <<"PUFC33_WEEKS", "C40_WEEKS", "C40_WKS", "CC40_WEEKS", "CC33_WEEKS">>)
  @@ ("PUFC34_WYNOT" :> <<"PUFC34_WYNOT", "PUFC26_WYNOT", "C42_WYNOT", "C42_WYNT", "CC42_WYNOT">>)
  @@ ("PUFC35_LTLOOKW" :> <<"PUFC35_LTLOOKW", "A06_LTLOOKW", "A06_LLKW", "CC35_LTLOOKW">>)
  @@ ("PUFC36_AVAIL" :> <<"PUFC36_AVAIL", "PUFC27_AVAIL", "C37_AVAIL", "C37_AVIL", "CC37_AVAIL", "CC36_AVAIL">>)
  @@ ("PUFC37_WILLING" :> <<"PUFC37_WILLING", "A07_WILLING", "A07_WLNG">>)
  @@ ("PUFC38_PREVJOB" :> <<"PUFC38_PREVJOB", "PUFC28_PREVJOB", "C43_LBEF", "CC43_LBEF">>)
  @@ ("PUFC39_YEAR" :> <<"PUFC39_YEAR", "PUFC29_YEAR">>)
  @@ ("PUFC39_MONTH" :> <<"PUFC39_MONTH", "PUFC29_MONTH">>)
  @@ ("PUFC41_POCC" :> <<"PUFC41_POCC", "PUFC40_POCC", "PUFC31_POCC", "C45_POCC", "CC45_POCC", "C45F2_POCC", "C45L2_POCC", "CC10_POCC">>)
  @@ ("PUFC43_QKB" :> <<"PUFC43_QKB", "PUFC33_QKB", "A09_PQKB", "A09F2_PQKB", "A09L2_PQKB", "PQKB", "QKB">>)

(* OUTPUT_SCHEMA: the ordered list of canonical fields. *)
OUTPUT_SCHEMA ==
  << "PUFREG", "PUFSVYYR", "PUFSVYMO", "PUFHHNUM",
     "PUFPSU", "PUFHHSIZE", "PUFRPL", "PUFPWGTPRV",
     "PUFC01_LNO", "PUFC03_REL", "PUFC04_SEX", "PUFC05_AGE",
     "PUFC06_MSTAT", "PUFC07_GRADE", "PUFC08_CURSCH", "PUFC09_GRADTECH",
     "PUFC10_CONWR", "PUFC11_WORK", "PUFC12_JOB", "PUFNEWEMPSTAT",
     "PUFC14_PROCC", "PUFC16_PKB", "PUFC17_NATEM", "PUFC18_PNWHRS",
     "PUFC19_PHOURS", "PUFC20_PWMORE", "PUFC21_PLADDW", "PUFC22_PFWRK",
     "PUFC23_PCLASS", "PUFC24_PBASIS", "PUFC25_PBASIC", "PUFC26_OJOB",
     "PUFC27_NJOBS", "PUFC28_THOURS", "PUFC29_WWM48H", "PUFC30_LOOKW",
     "PUFC31_FLWRK", "PUFC32_JOBSM", "PUFC33_WEEKS", "PUFC34_WYNOT",
     "PUFC35_LTLOOKW", "PUFC36_AVAIL", "PUFC37_WILLING", "PUFC38_PREVJOB",
     "PUFC39_YEAR", "PUFC39_MONTH", "PUFC41_POCC", "PUFC43_QKB" >>

(* Variant of the translator registry that also registers a field the
   schema does not hold. *)
TRANSLATION_MAP_with_retired_field ==
     ("PUFC03_REL" :> "translate_rel")
  @@ ("PUFC06_MSTAT" :> "translate_mstat")
  @@ ("PUFC07_GRADE" :> "translate_grade")
  @@ ("PUFC10_CONWR" :> "translate_conwr")
  @@ ("PUFC17_NATEM" :> "translate_natem")
  @@ ("PUFC20_PWMORE" :> "translate_yesno")
  @@ ("PUFC21_PLADDW" :> "translate_yesno")
  @@ ("PUFC22_PFWRK" :> "translate_yesno")
  @@ ("PUFC23_PCLASS" :> "translate_pclass")
  @@ ("PUFC24_PBASIS" :> "translate_pbasis")
  @@ ("PUFC26_OJOB" :> "translate_yesno")
  @@ ("PUFC30_LOOKW" :> "translate_yesno")
  @@ ("PUFC31_FLWRK" :> "translate_yesno")
  @@ ("PUFC34_WYNOT" :> "translate_wynot")
  @@ ("PUFC36_AVAIL" :> "translate_yesno")
  @@ ("PUFC37_WILLING" :> "translate_yesno")
  @@ ("PUFC38_PREVJOB" :> "translate_yesno")
  @@ ("PUFC11_WORK" :> "translate_yesno")
  @@ ("PUFC12_JOB" :> "translate_yesno")
  @@ ("PUFC40_POCC" :> "translate_yesno")

(* TRANSLATION_MAP: canonical field -> name of its translator. *)
TRANSLATION_MAP ==
     ("PUFC03_REL" :> "translate_rel")
  @@ ("PUFC06_MSTAT" :> "translate_mstat")
  @@ ("PUFC07_GRADE" :> "translate_grade")
  @@ ("PUFC10_CONWR" :> "translate_conwr")
  @@ ("PUFC17_NATEM" :> "translate_natem")
  @@ ("PUFC20_PWMORE" :> "translate_yesno")
  @@ ("PUFC21_PLADDW" :> "translate_yesno")
  @@ ("PUFC22_PFWRK" :> "translate_yesno")
  @@ ("PUFC23_PCLASS" :> "translate_pclass")
  @@ ("PUFC24_PBASIS" :> "translate_pbasis")
  @@ ("PUFC26_OJOB" :> "translate_yesno")
  @@ ("PUFC30_LOOKW" :> "translate_yesno")
  @@ ("PUFC31_FLWRK" :> "translate_yesno")
  @@ ("PUFC34_WYNOT" :> "translate_wynot")
  @@ ("PUFC36_AVAIL" :> "translate_yesno")
  @@ ("PUFC37_WILLING" :> "translate_yesno")
  @@ ("PUFC38_PREVJOB" :> "translate_yesno")
  @@ ("PUFC11_WORK" :> "translate_yesno")
  @@ ("PUFC12_JOB" :> "translate_yesno")

(***************************************************************************)
(* Utility functions                                                       *)
(***************************************************************************)

Range(seq) == {seq[k] : k \in 1..Len(seq)}

(* str.upper() on the column names the modelled releases use. *)
upper(name) ==
  CASE name = "pufsvyyr" -> "PUFSVYYR"
    [] name = "svyyr" -> "SVYYR"
    [] name = "c08_mstat" -> "C08_MSTAT"
    [] name = "Hhnum" -> "HHNUM"
    [] OTHER -> name

(* safe_int(x) on a cleaned cell: NaN stays NaN, a number becomes int(x). *)
safe_int(x) == IF x.t = "num" THEN Num(x.v) ELSE NaN

(* Variant of the coercion that turns what does not parse into 0. *)
to_numeric_text_as_zero(c) ==
  CASE c.t = "num" -> Num(c.v)
    [] c.t = "numstr" -> Num(c.v)
    [] c.t = "nan" -> NaN
    [] OTHER -> Num(0)

(* pd.to_numeric(series, errors='coerce'), cell by cell. *)
to_numeric(c) ==
  CASE c.t = "num" -> Num(c.v)
    [] c.t = "numstr" -> Num(c.v)
    [] OTHER -> NaN

(* clean_column(series): a numeric column. *)
clean_column(series) ==
  [dtype |-> "num", vals |-> [k \in 1..Len(series.vals) |-> to_numeric(series.vals[k])]]

(* col_map_upper = {c.upper(): c for c in df.columns}: a later column of the
   same upper-cased name replaces an earlier one. *)
col_map_upper_of(frame) ==
  [u \in {upper(frame.columns[k]) : k \in 1..Len(frame.columns)} |->
     LET ks == {k \in 1..Len(frame.columns) : upper(frame.columns[k]) = u}
         last == CHOOSE k \in ks : \A j \in ks : j <= k
     IN frame.columns[last]]

(* COLUMN_PRIORITY.get(target, [target]) *)
candidates(target) ==
  IF target \in DOMAIN COLUMN_PRIORITY THEN COLUMN_PRIORITY[target] ELSE << target >>

(* Variant of the acceptance test that only drops NaN. *)
non_empty_column_dropna_only(col) ==
  {k \in 1..Len(col.vals) : notna(col.vals[k])} # {}

(* The acceptance test of get_column: len(col.dropna()) > 0 and, for an
   object column, at least one remaining value whose str().strip() != ''. *)
non_empty_column(col) ==
  LET non_empty == {k \in 1..Len(col.vals) : notna(col.vals[k])}
      non_whitespace == {k \in non_empty : col.vals[k].t # "blank"}
  IN /\ non_empty # {}
     /\ (col.dtype = "object" => non_whitespace # {})

(* The for-loop of get_column from position k of the priority list. *)
RECURSIVE get_column_from(_, _, _, _)
get_column_from(frame, prio, cmap, k) ==
  IF k > Len(prio) THEN [col |-> None, src |-> None]
  ELSE IF /\ upper(prio[k]) \in DOMAIN cmap
          /\ non_empty_column(frame.data[cmap[upper(prio[k])]])
       THEN [col |-> Some(frame.data[cmap[upper(prio[k])]]), src |-> Some(prio[k])]
       ELSE get_column_from(frame, prio, cmap, k + 1)

(* Variant of get_column that prefers the most complete accepted variant. *)
get_column_most_complete(frame, target, cmap) ==
  LET prio == candidates(target)
      ok == {k \in 1..Len(prio) :
               /\ upper(prio[k]) \in DOMAIN cmap
               /\ non_empty_column(frame.data[cmap[upper(prio[k])]])}
      filled(k) == notna_sum(frame.data[cmap[upper(prio[k])]].vals)
  IN IF ok = {} THEN [col |-> None, src |-> None]
     ELSE LET best == CHOOSE k \in ok :
                        \A j \in ok : filled(j) < filled(k) \/ (filled(j) = filled(k) /\ k <= j)
          IN [col |-> Some(frame.data[cmap[upper(prio[best])]]), src |-> Some(prio[best])]

(* get_column(df, target, col_map_upper) -> (col, source_name) | (None, None) *)
get_column(frame, target, cmap) == get_column_from(frame, candidates(target), cmap, 1)

(***************************************************************************)
(* Translation functions.  A translator takes a cleaned cell and the       *)
(* release year.  The year axis is cut by the upper bounds of the          *)
(* if/elif chain; the code after the chain is the last era.                *)
(***************************************************************************)

(* dict.get(code, default) on a lookup table *)
dict_get(table, code, default) ==
  IF code \in DOMAIN table THEN Num(table[code]) ELSE default

(* The branch an if/elif chain `year <= bounds[1]`, `elif year <= bounds[2]`,
   ... takes; Len(bounds) + 1 is the code after the chain. *)
RECURSIVE era_from(_, _, _)
era_from(bounds, yr, k) ==
  IF k > Len(bounds) THEN k
  ELSE IF yr <= bounds[k] THEN k ELSE era_from(bounds, yr, k + 1)

era_of(bounds, yr) == era_from(bounds, yr, 1)

mstat_eras_swapped == << 2014, 2010, 2023 >>

(* translate_mstat: year <= 2010, year <= 2014, year <= 2023, else. *)
mstat_eras == << 2010, 2014, 2023 >>

(* Variant of the <= 2010 table that also knows code 6. *)
mstat_2010_with_6 == (1 :> 1) @@ (2 :> 2) @@ (3 :> 4) @@ (4 :> 6) @@ (5 :> 8) @@ (6 :> 7)

mstat_2010 == (1 :> 1) @@ (2 :> 2) @@ (3 :> 4) @@ (4 :> 6) @@ (5 :> 8)
mstat_2014 == (1 :> 1) @@ (2 :> 2) @@ (3 :> 4) @@ (4 :> 6) @@ (5 :> 8) @@ (6 :> 7)
mstat_2023 == (1 :> 1) @@ (2 :> 2) @@ (3 :> 4) @@ (4 :> 6) @@ (5 :> 7) @@ (6 :> 8)

translate_mstat(x, yr) ==
  LET code == safe_int(x)
      e == era_of(mstat_eras, yr)
  IN IF code.t = "nan" THEN NaN
     ELSE CASE e = 1 -> dict_get(mstat_2010, code.v, NaN)
            [] e = 2 -> dict_get(mstat_2014, code.v, NaN)
            [] e = 3 -> dict_get(mstat_2023, code.v, NaN)
            [] OTHER -> code

(* translate_grade: year <= 2011, year <= 2016, year <= 2018, year <= 2022, else. *)
grade_eras == << 2011, 2016, 2018, 2022 >>

grade_2016_elementary ==
  (210 :> 10011) @@ (220 :> 10012) @@ (230 :> 10013) @@ (240 :> 10014)
  @@ (250 :> 10015) @@ (260 :> 10016)

grade_2011(c) ==
  IF c = 0 THEN Num(0)
  ELSE IF c = 1 THEN Num(10012)
  ELSE IF c = 2 THEN Num(10018)
  ELSE IF c = 3 THEN Num(24012)
  ELSE IF c = 4 THEN Num(35011)
  ELSE IF c = 5 THEN Num(54011)
  ELSE IF 60 <= c /\ c <= 68 THEN Num(55011)
  ELSE IF 70 <= c /\ c <= 76 THEN Num(64011)
  ELSE NaN

grade_2016(c) ==
  IF c = 0 THEN Num(0)
  ELSE IF c = 10 THEN Num(2000)
  ELSE IF 210 <= c /\ c <= 260 THEN dict_get(grade_2016_elementary, c, Num(10012))
  ELSE IF c = 270 THEN Num(10017)
  ELSE IF c = 280 THEN Num(10018)
  ELSE IF 310 <= c /\ c <= 340 THEN Num(24011 + ((c - 310) \div 10))
  ELSE IF c = 350 THEN Num(35011)
  ELSE IF 410 <= c /\ c <= 499 THEN Num(44011)
  ELSE IF 510 <= c /\ c <= 559 THEN Num(54011)
  ELSE IF 560 <= c /\ c <= 599 THEN Num(55011)
  ELSE IF 610 <= c /\ c <= 699 THEN Num(64011)
  ELSE NaN

(* Variant of the 2017-2018 table whose range mappings add the code offset
   itself, not its tens. *)
grade_2018_by_offset(c) ==
  IF c = 0 THEN Num(0)
  ELSE IF c \in {1, 2, 10} THEN Num(2000)
  ELSE IF 110 <= c /\ c <= 160 THEN Num(10011 + (c - 110))
  ELSE IF c \in {170, 180, 191, 192} THEN Num(10018)
  ELSE IF 210 <= c /\ c <= 240 THEN Num(24011 + (c - 210))
  ELSE IF c = 250 THEN Num(24015)
  ELSE IF 310 <= c /\ c <= 320 THEN Num(34011)
  ELSE IF c = 350 THEN Num(35011)
  ELSE IF 410 <= c /\ c <= 499 THEN Num(44011)
  ELSE IF 510 <= c /\ c <= 559 THEN Num(54011)
  ELSE IF 560 <= c /\ c <= 599 THEN Num(55011)
  ELSE IF 610 <= c /\ c <= 699 THEN Num(64011)
  ELSE NaN

grade_2018(c) ==
  IF c = 0 THEN Num(0)
  ELSE IF c \in {1, 2, 10} THEN Num(2000)
  ELSE IF 110 <= c /\ c <= 160 THEN Num(10011 + ((c - 110) \div 10))
  ELSE IF c \in {170, 180, 191, 192} THEN Num(10018)
  ELSE IF 210 <= c /\ c <= 240 THEN Num(24011 + ((c - 210) \div 10))
  ELSE IF c = 250 THEN Num(24015)
  ELSE IF 310 <= c /\ c <= 320 THEN Num(34011)
  ELSE IF c = 350 THEN Num(35011)
  ELSE IF 410 <= c /\ c <= 499 THEN Num(44011)
  ELSE IF 510 <= c /\ c <= 559 THEN Num(54011)
  ELSE IF 560 <= c /\ c <= 599 THEN Num(55011)
  ELSE IF 610 <= c /\ c <= 699 THEN Num(64011)
  ELSE NaN

grade_2022(c) ==
  IF 0 <= c /\ c <= 1000 THEN Num(0)
  ELSE IF c = 2000 THEN Num(2000)
  ELSE IF 10011 <= c /\ c <= 64011 THEN Num(c)
  ELSE NaN

translate_grade(x, yr) ==
  LET code == safe_int(x)
      e == era_of(grade_eras, yr)
  IN IF code.t = "nan" THEN NaN
     ELSE CASE e = 1 -> grade_2011(code.v)
            [] e = 2 -> grade_2016(code.v)
            [] e = 3 -> grade_2018(code.v)
            [] e = 4 -> grade_2022(code.v)
            [] OTHER -> code

(* Year-independent range checks. *)
in_list(x, accepted) ==
  LET code == safe_int(x)
  IN IF code.t = "nan" THEN NaN
     ELSE IF code.v \in accepted THEN code ELSE NaN

translate_pclass(x, yr) == in_list(x, {0, 1, 2, 3, 4, 5, 6})
translate_natem(x, yr) == in_list(x, {1, 2, 3})
translate_pbasis(x, yr) == in_list(x, {0, 1, 2, 3, 4, 5, 6, 7})
translate_conwr(x, yr) == in_list(x, {1, 2, 3, 4, 5})
translate_yesno(x, yr) == in_list(x, {1, 2})
translate_rel(x, yr) == in_list(x, 1..26)

(* translate_wynot: year < 2021, else. *)
wynot_eras == << 2020 >>

translate_wynot(x, yr) ==
  LET code == safe_int(x)
      e == era_of(wynot_eras, yr)
  IN IF code.t = "nan" THEN NaN
     ELSE IF e = 1
          THEN IF code.v = 6 THEN Num(61)
               ELSE IF code.v \in {0, 1, 2, 3, 4, 5, 7, 8, 9} THEN code ELSE NaN
          ELSE code

(* TRANSLATION_MAP[target](x, year): the call through the registry. *)
translate(fn, x, yr) ==
  CASE fn = "translate_rel" -> translate_rel(x, yr)
    [] fn = "translate_mstat" -> translate_mstat(x, yr)
    [] fn = "translate_grade" -> translate_grade(x, yr)
    [] fn = "translate_conwr" -> translate_conwr(x, yr)
    [] fn = "translate_natem" -> translate_natem(x, yr)
    [] fn = "translate_yesno" -> translate_yesno(x, yr)
    [] fn = "translate_pclass" -> translate_pclass(x, yr)
    [] fn = "translate_pbasis" -> translate_pbasis(x, yr)
    [] fn = "translate_wynot" -> translate_wynot(x, yr)

(***************************************************************************)
(* process_file: the body of the loop over OUTPUT_SCHEMA for one target.   *)
(* Percentages are kept in hundredths of a percent: round(x / n * 100, 2)  *)
(* is the integer nearest to 10000 * x / n (no tie occurs for n < 32).     *)
(***************************************************************************)

pct(x, n) == IF n # 0 THEN (2 * 10000 * x + n) \div (2 * n) ELSE 0

(* Variant of the translation whose era drifts with the row. *)
apply_translation_by_row(target, clean, yr) ==
  [k \in 1..Len(clean.vals) |->
     translate(TRANSLATION_MAP[target], clean.vals[k], yr + 5 * (k - 1))]

(* col_data_clean.apply(lambda x: TRANSLATION_MAP[target](x, year)) *)
apply_translation(target, clean, yr) ==
  [k \in 1..Len(clean.vals) |-> translate(TRANSLATION_MAP[target], clean.vals[k], yr)]

(* Variant of the unmapped branch that fills the column with 0. *)
unmapped_field_zero(target, n_rows) ==
  [column |-> [k \in 1..n_rows |-> Num(0)],
   report |->
     [status |-> "UNMAPPED", source_col |-> None, translated |-> FALSE,
      raw_nonnull_count |-> 0, final_nonnull_count |-> 0, null_count |-> n_rows,
      retention_pct |-> 0, null_pct |-> 10000, translation_loss |-> 0,
      candidates_searched |-> candidates(target)]]

(* The else branch: no variant was accepted. *)
unmapped_field(target, n_rows) ==
  [column |-> [k \in 1..n_rows |-> NaN],
   report |->
     [status |-> "UNMAPPED",
      source_col |-> None,
      translated |-> FALSE,
      raw_nonnull_count |-> 0,
      final_nonnull_count |-> 0,
      null_count |-> n_rows,
      retention_pct |-> 0,
      null_pct |-> 10000,
      translation_loss |-> 0,
      candidates_searched |-> candidates(target)]]

(* Variant of the iteration that counts as translation loss every raw value
   that did not reach the output. *)
process_field_loss_from_raw(frame, cmap, target, yr, n_rows) ==
  LET got == get_column(frame, target, cmap)
  IN IF got.col # None
     THEN LET col_data == got.col[1]
              raw_nonnull == notna_sum(col_data.vals)
              col_data_clean == clean_column(col_data)
              clean_nonnull == notna_sum(col_data_clean.vals)
              was_translated == target \in DOMAIN TRANSLATION_MAP
              out == IF was_translated
                     THEN apply_translation(target, col_data_clean, yr)
                     ELSE col_data_clean.vals
              final_nonnull == IF was_translated THEN notna_sum(out) ELSE clean_nonnull
              null_count == n_rows - final_nonnull
          IN [column |-> out,
              report |->
                [status |-> IF was_translated THEN "MAPPED+TRANSLATED" ELSE "MAPPED",
                 source_col |-> got.src,
                 translated |-> was_translated,
                 raw_nonnull_count |-> raw_nonnull,
                 final_nonnull_count |-> final_nonnull,
                 null_count |-> null_count,
                 retention_pct |-> pct(final_nonnull, n_rows),
                 null_pct |-> pct(null_count, n_rows),
                 translation_loss |-> IF was_translated
                                      THEN raw_nonnull - final_nonnull ELSE 0]]
     ELSE unmapped_field(target, n_rows)

(* One iteration: the output column of `target` and its col_reports entry. *)
process_field(frame, cmap, target, yr, n_rows) ==
  LET got == get_column(frame, target, cmap)
  IN IF got.col # None
     THEN LET col_data == got.col[1]
              raw_nonnull == notna_sum(col_data.vals)
              col_data_clean == clean_column(col_data)
              clean_nonnull == notna_sum(col_data_clean.vals)
              was_translated == target \in DOMAIN TRANSLATION_MAP
              out == IF was_translated
                     THEN apply_translation(target, col_data_clean, yr)
                     ELSE col_data_clean.vals
              final_nonnull == IF was_translated THEN notna_sum(out) ELSE clean_nonnull
              null_count == n_rows - final_nonnull
          IN [column |-> out,
              report |->
                [status |-> IF was_translated THEN "MAPPED+TRANSLATED" ELSE "MAPPED",
                 source_col |-> got.src,
                 translated |-> was_translated,
                 raw_nonnull_count |-> raw_nonnull,
                 final_nonnull_count |-> final_nonnull,
                 null_count |-> null_count,
                 retention_pct |-> pct(final_nonnull, n_rows),
                 null_pct |-> pct(null_count, n_rows),
                 translation_loss |-> IF was_translated
                                      THEN clean_nonnull - final_nonnull ELSE 0]]
     ELSE unmapped_field(target, n_rows)

(***************************************************************************)
(* process_file and the loop of process_all_batched.                       *)
(* A file of the input directory is [name, content, error]: content is the *)
(* frame read_csv returns, or None when read_csv raises, and error is then *)
(* the text of the exception.  A frame is                                  *)
(* [columns, data, rows]: the column names in file order, the column of    *)
(* each name, and the number of rows.                                      *)
(***************************************************************************)

(* extract_year_month(filepath) on the file names of the modelled
   directories: the first 20dd / 199d in the upper-cased stem, and the
   month whose three-letter name the stem contains. *)
extract_year_month(name) ==
  CASE name = "apr2009.csv" -> [year |-> Some(2009), month |-> Some(4)]
    [] name = "lfs_2020.csv" -> [year |-> Some(2020), month |-> None]
    [] name = "lfs_jul2020.csv" -> [year |-> Some(2020), month |-> Some(7)]
    [] name = "oct_wave.csv" -> [year |-> None, month |-> Some(10)]
    [] name = "wave_a.csv" -> [year |-> None, month |-> None]
    [] name = "wave_b.csv" -> [year |-> None, month |-> None]
    [] OTHER -> [year |-> None, month |-> None]

(* The year substituted when none is detected. *)
DEFAULT_YEAR == 2020

(* The raw columns tried for the year, in order. *)
YEAR_COLUMNS == << "SVYYR", "CYEAR", "PUFSVYYR" >>

(* int(pd.to_numeric(col, errors='coerce').mode().iloc[0]): the smallest of
   the most frequent numbers; None when the column has no number (iloc[0]
   raises and the exception is swallowed). *)
year_mode(col) ==
  LET nums == clean_column(col).vals
      vs == {nums[k].v : k \in {j \in 1..Len(nums) : nums[j].t = "num"}}
      count(v) == Cardinality({k \in 1..Len(nums) : nums[k] = Num(v)})
      modes == {v \in vs : \A w \in vs : count(w) <= count(v)}
  IN IF vs = {} THEN None
     ELSE Some(CHOOSE v \in modes : \A w \in modes : v <= w)

(* Python truthiness of the optional year: None and 0 are false. *)
truthy(y) == y # None /\ y[1] # 0

(* The loop over YEAR_COLUMNS from position k with the current year y. *)
RECURSIVE year_from_columns(_, _, _, _)
year_from_columns(frame, cmap, k, y) ==
  IF k > Len(YEAR_COLUMNS) THEN y
  ELSE IF upper(YEAR_COLUMNS[k]) \in DOMAIN cmap
       THEN LET m == year_mode(frame.data[cmap[upper(YEAR_COLUMNS[k])]])
                y2 == IF m # None THEN m ELSE y
            IN IF truthy(y2) THEN y2 ELSE year_from_columns(frame, cmap, k + 1, y2)
       ELSE year_from_columns(frame, cmap, k + 1, y)

(* The year before the default is applied: from the file name, else from
   the columns. *)
detect_year(name, frame) ==
  LET y == extract_year_month(name).year
  IN IF y = None THEN year_from_columns(frame, col_map_upper_of(frame), 1, y) ELSE y

(* out_df[name] = vals: a new column goes last, an existing one keeps its place. *)
set_column(table, name, vals) ==
  [columns |-> IF name \in Range(table.columns) THEN table.columns
               ELSE Append(table.columns, name),
   data |-> [c \in DOMAIN table.data \cup {name} |->
               IF c = name THEN vals ELSE table.data[c]],
   rows |-> table.rows]

(* out_df[name] = scalar *)
set_scalar(table, name, v) == set_column(table, name, [k \in 1..table.rows |-> Num(v)])

(* Variant of the column selection that also drops entirely missing columns. *)
select_columns_dropna(table, names) ==
  LET kept == SelectSeq(names, LAMBDA c : \E k \in 1..table.rows : table.data[c][k].t # "nan")
  IN [columns |-> kept, data |-> [c \in Range(kept) |-> table.data[c]], rows |-> table.rows]

(* out_df[names] *)
select_columns(table, names) ==
  [columns |-> names, data |-> [c \in Range(names) |-> table.data[c]], rows |-> table.rows]

(* pd.DataFrame(index=df.index) *)
empty_table(n_rows) == [columns |-> << >>, data |-> << >>, rows |-> n_rows]

(* The loop over OUTPUT_SCHEMA: out_df[target] = ... adds each target as a
   new last column (the names of OUTPUT_SCHEMA are distinct), so the table
   after the loop has the targets in loop order. *)
map_fields(frame, cmap, yr, table) ==
  [columns |-> table.columns \o OUTPUT_SCHEMA,
   data |-> [t \in DOMAIN table.data \cup Range(OUTPUT_SCHEMA) |->
               IF t \in Range(OUTPUT_SCHEMA)
               THEN process_field(frame, cmap, t, yr, frame.rows).column
               ELSE table.data[t]],
   rows |-> table.rows]

(* Variant of the lock that sets year and month only when the table has no
   such column. *)
lock_year_month_if_absent(table, yr, mo) ==
  LET t1 == IF "PUFSVYYR" \notin Range(table.columns)
            THEN set_scalar(table, "PUFSVYYR", yr) ELSE table
      t2 == IF "PUFSVYMO" \notin Range(t1.columns) /\ mo # None
            THEN set_scalar(t1, "PUFSVYMO", mo[1]) ELSE t1
  IN select_columns(t2, OUTPUT_SCHEMA)

(* Lock year/month, then out_df = out_df[OUTPUT_SCHEMA]. *)
lock_year_month(table, yr, mo) ==
  LET t1 == set_scalar(table, "PUFSVYYR", yr)
      t2 == IF mo # None THEN set_scalar(t1, "PUFSVYMO", mo[1]) ELSE t1
  IN select_columns(t2, OUTPUT_SCHEMA)

RECURSIVE sum_final_nonnull(_, _)
sum_final_nonnull(reports, k) ==
  IF k > Len(OUTPUT_SCHEMA) THEN 0
  ELSE reports[OUTPUT_SCHEMA[k]].final_nonnull_count + sum_final_nonnull(reports, k + 1)

(* The file_report process_file returns. *)
file_report_of(fname, yr, mo, frame, reports) ==
  LET mapped_list == SelectSeq(OUTPUT_SCHEMA, LAMBDA t : reports[t].status # "UNMAPPED")
      unmapped_list == SelectSeq(OUTPUT_SCHEMA, LAMBDA t : reports[t].status = "UNMAPPED")
      translated_list == SelectSeq(OUTPUT_SCHEMA, LAMBDA t : reports[t].translated)
      total_cells == frame.rows * Len(OUTPUT_SCHEMA)
      nonnull_cells == sum_final_nonnull(reports, 1)
  IN [file |-> fname,
      year |-> yr,
      month |-> mo,
      rows |-> frame.rows,
      source_columns_count |-> Len(frame.columns),
      mapped_count |-> Len(mapped_list),
      unmapped_count |-> Len(unmapped_list),
      translated_count |-> Len(translated_list),
      mapped_pct |-> pct(Len(mapped_list), Len(OUTPUT_SCHEMA)),
      overall_retention_pct |-> pct(nonnull_cells, total_cells),
      unmapped_columns |-> unmapped_list,
      columns |-> reports]

(* A line of the log: its kind and, for a FILE line, the file name. *)
line(kind, arg) == [kind |-> kind, arg |-> arg]

(* The order of sort_values on numeric columns: missing values last. *)
cell_lt(a, b) ==
  /\ a.t = "num"
  /\ IF b.t = "num" THEN a.v < b.v ELSE TRUE

(* The order of sort_values([k1, k2]) on the pairs of key cells. *)
key_lt(a, b) == cell_lt(a[1], b[1]) \/ (a[1] = b[1] /\ cell_lt(a[2], b[2]))

(* sort_values on several keys is a stable sort: the row indices 1..n in
   sorted order, rows of equal keys in their original order. *)
RECURSIVE sort_index(_, _)
sort_index(keys, n) ==
  IF n = 0 THEN << >>
  ELSE LET s == sort_index(keys, n - 1)
       IN SelectSeq(s, LAMBDA e : ~key_lt(keys[n], keys[e]))
          \o << n >>
          \o SelectSeq(s, LAMBDA e : key_lt(keys[n], keys[e]))

(* retention % below this is flagged, in hundredths of a percent *)
HIGH_NULL_THRESHOLD == 5000

(* Variant of the list that does not look at the status, so that it holds
   the unmapped fields as well. *)
low_ret_with_unmapped(reports) ==
  LET low == SelectSeq(OUTPUT_SCHEMA,
                       LAMBDA t : reports[t].retention_pct < HIGH_NULL_THRESHOLD)
      p == sort_index([k \in 1..Len(low) |-> << Num(reports[low[k]].retention_pct), NaN >>],
                      Len(low))
  IN [k \in 1..Len(low) |-> low[p[k]]]

(* low_ret: the mapped fields of a release whose retention is under the
   threshold, by increasing retention. *)
low_ret(reports) ==
  LET low == SelectSeq(OUTPUT_SCHEMA,
                       LAMBDA t : /\ reports[t].status # "UNMAPPED"
                                  /\ reports[t].retention_pct < HIGH_NULL_THRESHOLD)
      p == sort_index([k \in 1..Len(low) |-> << Num(reports[low[k]].retention_pct), NaN >>],
                      Len(low))
  IN [k \in 1..Len(low) |-> low[p[k]]]

(* What process_file logs after the lock: the mapping table, the file
   summary with the list of low-retention mapped fields, the timing. *)
file_log(reports) ==
  << line("COLUMN MAPPING TABLE", ""), line("FILE SUMMARY", "") >>
  \o [k \in 1..Len(low_ret(reports)) |-> line("LOW RETENTION", low_ret(reports)[k])]
  \o << line("Processed", "") >>

(* for i, f in enumerate(files, 1): process_file reads the file. *)
ReadFile ==
  /\ pc = "read"
  /\ i <= Len(files)
  /\ files[i].content # None
  /\ df' = files[i].content
  /\ LET ym == extract_year_month(files[i].name)
     IN /\ year' = ym.year
        /\ month' = ym.month
  /\ log_messages' = log_messages \o << line("FILE", files[i].name) >>
  /\ pc' = "infer"
  /\ UNCHANGED post_vars
  /\ UNCHANGED << call, files, i, out_df, col_reports, all_parquet_files,
                  all_file_reports, errors, total_rows >>

(* Variant of the read failure that leaves no trace of the error in the log. *)
ReadFileErrorUnlogged ==
  /\ pc = "read"
  /\ i <= Len(files)
  /\ files[i].content = None
  /\ log_messages' = log_messages \o << line("FILE", files[i].name) >>
  /\ i' = i + 1
  /\ UNCHANGED post_vars
  /\ UNCHANGED << call, files, pc, df, year, month, out_df, col_reports,
                  all_parquet_files, all_file_reports, errors, total_rows >>

(* read_csv raises: process_file logs the error and returns (None, None);
   the loop goes on to the next file. *)
ReadFileError ==
  /\ pc = "read"
  /\ i <= Len(files)
  /\ files[i].content = None
  /\ log_messages' = log_messages \o << line("FILE", files[i].name),
                                        line("ERROR reading file", files[i].error) >>
  /\ i' = i + 1
  /\ UNCHANGED post_vars
  /\ UNCHANGED << call, files, pc, df, year, month, out_df, col_reports,
                  all_parquet_files, all_file_reports, errors, total_rows >>

(* Variant of the year inference that defaults without a warning. *)
InferYearSilent ==
  /\ pc = "infer"
  /\ LET frame == df[1]
         y == IF year = None
              THEN year_from_columns(frame, col_map_upper_of(frame), 1, year)
              ELSE year
     IN year' = IF y = None THEN Some(DEFAULT_YEAR) ELSE y
  /\ log_messages' = log_messages \o << line("Year", "") >>
  /\ pc' = "fields"
  /\ UNCHANGED post_vars
  /\ UNCHANGED << call, files, i, df, month, out_df, col_reports,
                  all_parquet_files, all_file_reports, errors, total_rows >>

(* Year inference: the file name, else the year columns, else the default. *)
InferYear ==
  /\ pc = "infer"
  /\ LET frame == df[1]
         y == IF year = None
              THEN year_from_columns(frame, col_map_upper_of(frame), 1, year)
              ELSE year
     IN IF y = None
        THEN /\ year' = Some(DEFAULT_YEAR)
             /\ log_messages' = log_messages \o
                  << line("WARNING: Could not detect year - defaulting", ""),
                     line("Year", "") >>
        ELSE /\ year' = y
             /\ log_messages' = log_messages \o << line("Year", "") >>
  /\ pc' = "fields"
  /\ UNCHANGED post_vars
  /\ UNCHANGED << call, files, i, df, month, out_df, col_reports,
                  all_parquet_files, all_file_reports, errors, total_rows >>

(* Variant of the field step that goes straight to emission, the table not
   locked. *)
MapAndTranslateThenEmit ==
  /\ pc = "fields"
  /\ LET frame == df[1]
         cmap == col_map_upper_of(frame)
     IN /\ out_df' = Some(map_fields(frame, cmap, year[1], empty_table(frame.rows)))
        /\ col_reports' =
             Some([t \in Range(OUTPUT_SCHEMA) |->
                     process_field(frame, cmap, t, year[1], frame.rows).report])
  /\ pc' = "emit"
  /\ UNCHANGED post_vars
  /\ UNCHANGED << call, files, i, df, year, month, log_messages,
                  all_parquet_files, all_file_reports, errors, total_rows >>

(* Map and translate every target column. *)
MapAndTranslate ==
  /\ pc = "fields"
  /\ LET frame == df[1]
         cmap == col_map_upper_of(frame)
     IN /\ out_df' = Some(map_fields(frame, cmap, year[1], empty_table(frame.rows)))
        /\ col_reports' =
             Some([t \in Range(OUTPUT_SCHEMA) |->
                     process_field(frame, cmap, t, year[1], frame.rows).report])
  /\ pc' = "lock"
  /\ UNCHANGED post_vars
  /\ UNCHANGED << call, files, i, df, year, month, log_messages,
                  all_parquet_files, all_file_reports, errors, total_rows >>

(* Lock year/month and the schema. *)
LockSchema ==
  /\ pc = "lock"
  /\ out_df' = Some(lock_year_month(out_df[1], year[1], month))
  /\ pc' = "emit"
  /\ UNCHANGED post_vars
  /\ UNCHANGED << call, files, i, df, year, month, col_reports, log_messages,
                  all_parquet_files, all_file_reports, errors, total_rows >>

(* Variant of the emission that persists the table and does not keep the
   diagnostic record. *)
EmitWithoutReport ==
  /\ pc = "emit"
  /\ all_parquet_files' = Append(all_parquet_files,
                                 [path |-> files[i].name, table |-> out_df[1]])
  /\ total_rows' = total_rows + out_df[1].rows
  /\ log_messages' = log_messages \o file_log(col_reports[1])
  /\ df' = None /\ year' = None /\ month' = None
  /\ out_df' = None /\ col_reports' = None
  /\ i' = i + 1
  /\ pc' = "read"
  /\ UNCHANGED post_vars
  /\ UNCHANGED << call, files, all_file_reports, errors >>

(* process_file logs the mapping table and returns (out_df, file_report);
   the table is written and the accumulators grow. *)
Emit ==
  /\ pc = "emit"
  /\ LET file_report == file_report_of(files[i].name, year[1], month, df[1], col_reports[1])
     IN /\ all_parquet_files' = Append(all_parquet_files,
                                       [path |-> files[i].name, table |-> out_df[1]])
        /\ all_file_reports' = Append(all_file_reports, file_report)
        /\ total_rows' = total_rows + out_df[1].rows
  /\ log_messages' = log_messages \o file_log(col_reports[1])
  /\ df' = None /\ year' = None /\ month' = None
  /\ out_df' = None /\ col_reports' = None
  /\ i' = i + 1
  /\ pc' = "read"
  /\ UNCHANGED post_vars
  /\ UNCHANGED << call, files, errors >>

(* Variant of the fatal error that is not caught: the exception leaves the
   loop and the run. *)
EmitFailsAborts ==
  /\ pc = "emit"
  /\ log_messages' = log_messages \o file_log(col_reports[1])
  /\ df' = None /\ year' = None /\ month' = None
  /\ out_df' = None /\ col_reports' = None
  /\ run_result' = "raised"
  /\ pc' = "done"
  /\ UNCHANGED << call, files, i, all_parquet_files, all_file_reports, errors, total_rows,
                  batch_size, batch_start, first_batch, combined_file, outputs >>

(* to_parquet raises: the exception is logged and recorded, nothing is
   appended. *)
EmitFails ==
  /\ pc = "emit"
  /\ log_messages' = log_messages \o file_log(col_reports[1]) \o << line("FATAL ERROR", "") >>
  /\ errors' = Append(errors, << files[i].name, "error" >>)
  /\ df' = None /\ year' = None /\ month' = None
  /\ out_df' = None /\ col_reports' = None
  /\ i' = i + 1
  /\ pc' = "read"
  /\ UNCHANGED post_vars
  /\ UNCHANGED << call, files, all_parquet_files, all_file_reports, total_rows >>

(***************************************************************************)
(* process_all_batched after the loop: the diagnostics, the combination in *)
(* batches, the final sort, the metadata and the log.                      *)
(***************************************************************************)

(* def process_all_batched(input_dir, output_dir, batch_size=10) *)
DEFAULT_BATCH_SIZE == 10

(* The diagnostics files of the output directory, none written yet. *)
no_outputs ==
  [per_release_report |-> None, coverage_matrix |-> None, column_summary |-> None,
   metadata |-> None, log |-> None]

(* A string cell of the coverage matrix. *)
Str(s) == [t |-> "str", v |-> s]

RECURSIVE sum_seq(_, _)
sum_seq(s, k) == IF k > Len(s) THEN 0 ELSE s[k] + sum_seq(s, k + 1)

min_seq(s) == CHOOSE x \in Range(s) : \A y \in Range(s) : x <= y
max_seq(s) == CHOOSE x \in Range(s) : \A y \in Range(s) : x >= y

(* round(a / n, 2) on hundredths: the nearest integer to a / n, a tie going
   to the even one (a >= 0, n > 0). *)
round_div(a, n) ==
  LET q == a \div n
      r == a % n
  IN IF 2 * r < n THEN q
     ELSE IF 2 * r > n THEN q + 1
     ELSE IF q % 2 = 0 THEN q ELSE q + 1

(* Variant of the summary that takes the retention of the unmapped
   releases (0.0) into the average as well. *)
retention_vals_all(reports, col) ==
  [k \in 1..Len(reports) |-> reports[k].columns[col].retention_pct]

(* retention_vals: the retention of the releases where col is not UNMAPPED,
   in report order. *)
retention_vals_of(reports, col) ==
  LET mapped == SelectSeq(reports, LAMBDA rep : rep.columns[col].status # "UNMAPPED")
  IN [k \in 1..Len(mapped) |-> mapped[k].columns[col].retention_pct]

(* build_column_summary(all_file_reports) *)
build_column_summary(reports) ==
  LET n_files == Len(reports)
  IN [col \in Range(OUTPUT_SCHEMA) |->
        LET unmapped == SelectSeq(reports, LAMBDA rep : rep.columns[col].status = "UNMAPPED")
            mapped == SelectSeq(reports, LAMBDA rep : rep.columns[col].status # "UNMAPPED")
            unmapped_files == [k \in 1..Len(unmapped) |-> unmapped[k].file]
            retention_vals == retention_vals_of(reports, col)
            used == SelectSeq(mapped, LAMBDA rep : rep.columns[col].source_col # None)
            sources == [src \in {used[k].columns[col].source_col[1] : k \in 1..Len(used)} |->
                          Cardinality({k \in 1..Len(used) :
                                         used[k].columns[col].source_col[1] = src})]
        IN [files_total |-> n_files,
            files_unmapped |-> Len(unmapped_files),
            files_mapped |-> n_files - Len(unmapped_files),
            unmapped_pct |-> pct(Len(unmapped_files), n_files),
            avg_retention_when_mapped |->
              IF retention_vals # << >>
              THEN Some(round_div(sum_seq(retention_vals, 1), Len(retention_vals)))
              ELSE None,
            min_retention_when_mapped |->
              IF retention_vals # << >> THEN Some(min_seq(retention_vals)) ELSE None,
            max_retention_when_mapped |->
              IF retention_vals # << >> THEN Some(max_seq(retention_vals)) ELSE None,
            source_columns_used |-> sources,
            unmapped_in_files |-> unmapped_files]]

(* Variant of the coverage matrix that keeps the rows in report order. *)
matrix_order_unsorted(rows) == [k \in 1..Len(rows) |-> k]

(* matrix_df.sort_values(['year', 'month']): the order of the rows. *)
matrix_order(rows) ==
  sort_index([k \in 1..Len(rows) |->
                << Num(rows[k].year),
                   IF rows[k].month = None THEN NaN ELSE Num(rows[k].month[1]) >>],
             Len(rows))

(* save_coverage_matrix(all_file_reports, output_path): the rows written. *)
save_coverage_matrix(reports) ==
  LET rows == [k \in 1..Len(reports) |->
                 [file |-> reports[k].file,
                  year |-> reports[k].year,
                  month |-> reports[k].month,
                  rows |-> reports[k].rows,
                  source_cols |-> reports[k].source_columns_count,
                  mapped_count |-> reports[k].mapped_count,
                  unmapped_count |-> reports[k].unmapped_count,
                  overall_retention_pct |-> reports[k].overall_retention_pct,
                  cells |-> [col \in Range(OUTPUT_SCHEMA) |->
                               IF reports[k].columns[col].status = "UNMAPPED"
                               THEN Str("UNMAPPED")
                               ELSE Num(reports[k].columns[col].retention_pct)]]]
      p == matrix_order(rows)
  IN [k \in 1..Len(rows) |-> rows[p[k]]]

(* pd.concat([a, b], ignore_index=True) of two tables of the same columns. *)
concat2(a, b) ==
  [columns |-> a.columns,
   data |-> [c \in DOMAIN a.data |-> a.data[c] \o b.data[c]],
   rows |-> a.rows + b.rows]

(* pd.concat(batch_dfs, ignore_index=True), batch_dfs the tables read back
   from a non-empty list of parquet files. *)
RECURSIVE concat(_, _)
concat(parquets, k) ==
  IF k = Len(parquets) THEN parquets[k].table
  ELSE concat2(parquets[k].table, concat(parquets, k + 1))

(* Variant of the batch write that treats every batch as the first one. *)
write_batch_overwrite(first, existing, batch_combined) == batch_combined

(* The combined file after a batch: the first batch creates it, a later one
   is appended to what the file holds. *)
write_batch(first, existing, batch_combined) ==
  IF first THEN batch_combined ELSE concat2(existing[1], batch_combined)

(* final_df.sort_values(['PUFSVYYR', 'PUFSVYMO']).reset_index(drop=True) *)
sort_by_year_month(table) ==
  IF "PUFSVYYR" \in Range(table.columns)
  THEN LET p == sort_index([r \in 1..table.rows |->
                              << table.data["PUFSVYYR"][r], table.data["PUFSVYMO"][r] >>],
                           table.rows)
       IN [table EXCEPT !.data = [c \in DOMAIN table.data |->
                                    [r \in 1..table.rows |-> table.data[c][p[r]]]]]
  ELSE table

(* metadata.json *)
meta_of(parquets, errs, final_df, col_summary) ==
  [version |-> "v8-final",
   files_processed |-> Len(parquets),
   files_with_errors |-> Len(errs),
   total_rows |-> final_df.rows,
   columns |-> final_df.columns,
   column_count |-> Len(final_df.columns),
   errors |-> SubSeq(errs, 1, IF Len(errs) < 20 THEN Len(errs) ELSE 20),
   column_summary |-> col_summary]

(* always_unmapped: the fields no release has mapped. *)
always_unmapped(col_summary) ==
  SelectSeq(OUTPUT_SCHEMA, LAMBDA c : col_summary[c].files_mapped = 0)

(* The null analysis of the combined dataset: the fields whose share of
   non-missing cells over all its rows is under the threshold (0.0 for a
   dataset without rows). *)
high_null(final_df) ==
  SelectSeq(OUTPUT_SCHEMA,
            LAMBDA c : IF final_df.rows # 0
                       THEN 10000 * notna_sum(final_df.data[c]) < HIGH_NULL_THRESHOLD * final_df.rows
                       ELSE 0 < HIGH_NULL_THRESHOLD)

(* One log line per flagged field. *)
flag_lines(kind, cols) == [k \in 1..Len(cols) |-> line(kind, cols[k])]

(* The loop over the releases is over: the per-release report, the
   coverage matrix and the per-field summary are written when at least one
   release was processed; the totals are logged. *)
SaveReports ==
  /\ pc = "read"
  /\ i > Len(files)
  /\ IF all_file_reports # << >>
     THEN /\ outputs' = [outputs EXCEPT
                           !.per_release_report = Some(all_file_reports),
                           !.coverage_matrix = Some(save_coverage_matrix(all_file_reports)),
                           !.column_summary = Some(build_column_summary(all_file_reports))]
          /\ log_messages' = log_messages \o
               << line("Per-release report", ""), line("Coverage matrix", ""),
                  line("Column summary", ""), line("INDIVIDUAL FILES COMPLETE", ""),
                  line("CROSS-FILE COLUMN COVERAGE SUMMARY", "") >>
               \o flag_lines("ALWAYS UNMAPPED",
                              always_unmapped(outputs'.column_summary[1]))
     ELSE /\ outputs' = outputs
          /\ log_messages' = log_messages \o << line("INDIVIDUAL FILES COMPLETE", "") >>
  /\ batch_start' = 0
  /\ first_batch' = TRUE
  /\ pc' = "combine"
  /\ UNCHANGED << call, files, i, df, year, month, out_df, col_reports,
                  all_parquet_files, all_file_reports, errors, total_rows,
                  batch_size, combined_file, run_result >>

(* One batch of the combination: the batch's tables are read back and
   concatenated, and the combined file is created or extended. *)
CombineBatch ==
  /\ pc = "combine"
  /\ batch_start < Len(all_parquet_files)
  /\ LET batch_end == IF batch_start + batch_size < Len(all_parquet_files)
                      THEN batch_start + batch_size ELSE Len(all_parquet_files)
         batch_files == SubSeq(all_parquet_files, batch_start + 1, batch_end)
         batch_combined == concat(batch_files, 1)
     IN combined_file' = Some(write_batch(first_batch, combined_file, batch_combined))
  /\ first_batch' = FALSE
  /\ batch_start' = batch_start + batch_size
  /\ log_messages' = log_messages \o
       (IF batch_start = 0 THEN << line("Combining", "") >> ELSE << >>)
       \o << line("Batch", "") >>
  /\ UNCHANGED << call, files, i, pc, df, year, month, out_df, col_reports,
                  all_parquet_files, all_file_reports, errors, total_rows,
                  batch_size, outputs, run_result >>

(* The end of the run: when a table was persisted, the combined file is
   sorted and the metadata written; the errors are logged; the log is
   written, and process_all_batched returns. *)
Finish ==
  /\ pc = "combine"
  /\ batch_start >= Len(all_parquet_files)
  /\ LET error_lines == IF errors # << >>
                        THEN << line("FILES WITH ERRORS", "") >> \o
                             [k \in 1..Len(errors) |-> line("  - ", errors[k][1])]
                        ELSE << >>
         col_summary == IF outputs.column_summary # None
                        THEN outputs.column_summary[1] ELSE << >>
     IN IF all_parquet_files # << >>
        THEN LET final_df == sort_by_year_month(combined_file[1])
                 log == log_messages \o
                        << line("Final sort", ""), line("HARMONIZATION COMPLETE!", ""),
                           line("FINAL DATASET - NULL ANALYSIS", "") >>
                        \o flag_lines("<-- HIGH NULL", high_null(final_df))
                        \o error_lines
             IN /\ combined_file' = Some(final_df)
                /\ log_messages' = log
                /\ outputs' = [outputs EXCEPT
                     !.metadata = Some(meta_of(all_parquet_files, errors, final_df, col_summary)),
                     !.log = Some(log)]
        ELSE /\ combined_file' = combined_file
             /\ log_messages' = log_messages \o error_lines
             /\ outputs' = [outputs EXCEPT !.log = Some(log_messages \o error_lines)]
  /\ run_result' = "returned"
  /\ pc' = "done"
  /\ UNCHANGED << call, files, i, df, year, month, out_df, col_reports,
                  all_parquet_files, all_file_reports, errors, total_rows,
                  batch_size, batch_start, first_batch >>

Next ==
  \/ ReadFile
  \/ ReadFileError
  \/ InferYear
  \/ MapAndTranslate
  \/ LockSchema
  \/ Emit
  \/ EmitFails
  \/ SaveReports
  \/ CombineBatch
  \/ Finish

(***************************************************************************)
(* The modelled releases.                                                  *)
(***************************************************************************)

(* Rows of a release. *)
MaxRows == 2

(* Releases of an input directory. *)
MaxFiles == 3

(* Largest batch size of the combination step. *)
MaxBatch == 3

(* The values a raw column of a given name takes in the modelled releases. *)
CellsOf(name) ==
  CASE name = "SVYYR" -> {NaN, Num(0), Num(2015)}
    [] name = "CYEAR" -> {NaN, Num(2016)}
    [] name = "pufsvyyr" -> {NaN, Num(2014)}
    [] name = "PUFSVYMO" -> {NaN, Num(7)}
    [] name = "C08_MSTAT" -> {NaN, Num(1), Num(6)}
    [] name = "PUFC05_AGE" -> {Blank, Text, NumStr(30)}
    [] OTHER -> {Num(9)}

dtype_of(name) == IF name = "PUFC05_AGE" THEN "object" ELSE "num"

(* The column layouts of the modelled releases, in file order. *)
Layouts ==
  { << >>,
    << "SVYYR" >>,
    << "CYEAR", "SVYYR" >>,
    << "pufsvyyr", "CYEAR" >>,
    << "SVYYR", "CYEAR", "pufsvyyr" >>,
    << "PUFSVYMO", "EXTRA" >>,
    << "pufsvyyr", "PUFSVYMO" >>,
    << "C08_MSTAT", "PUFC05_AGE" >>,
    << "EXTRA", "C08_MSTAT", "PUFSVYMO" >> }

SeqsOfLen(S, n) == [1..n -> S]

(* Every release of n rows with a given layout. *)
FramesOf(layout, n) ==
  { [columns |-> layout,
     data |-> [c \in Range(layout) |-> [dtype |-> dtype_of(c), vals |-> d[c]]],
     rows |-> n] :
    d \in { f \in [Range(layout) -> UNION {SeqsOfLen(CellsOf(c), n) : c \in Range(layout)}] :
            \A c \in Range(layout) : f[c] \in SeqsOfLen(CellsOf(c), n) } }

FileFrames == UNION { FramesOf(layout, n) : layout \in Layouts, n \in 0 .. MaxRows }

FileNames == << "apr2009.csv", "lfs_2020.csv", "oct_wave.csv", "wave_a.csv" >>

RunStart ==
  /\ call = [fn |-> "none"]
  /\ i = 1
  /\ pc = "read"
  /\ df = None
  /\ year = None
  /\ month = None
  /\ out_df = None
  /\ col_reports = None
  /\ log_messages = << >>
  /\ all_parquet_files = << >>
  /\ all_file_reports = << >>
  /\ errors = << >>
  /\ total_rows = 0
  /\ batch_start = 0
  /\ first_batch = TRUE
  /\ combined_file = None
  /\ outputs = no_outputs
  /\ run_result = "running"

(* The files of the modelled input directories, in the order of their
   lower-cased names. *)
RunFiles ==
  << [name |-> "apr2009.csv", error |-> "",
      content |-> Some([columns |-> << "C08_MSTAT", "PUFSVYMO" >>,
                        data |-> ("C08_MSTAT" :> [dtype |-> "num", vals |-> << Num(1), Num(6) >>])
                              @@ ("PUFSVYMO" :> [dtype |-> "num", vals |-> << Num(7), Num(7) >>]),
                        rows |-> 2])],
     [name |-> "lfs_2020.csv", error |-> "",
      content |-> Some([columns |-> << "pufsvyyr", "PUFC05_AGE" >>,
                        data |-> ("pufsvyyr" :> [dtype |-> "num", vals |-> << Num(2014) >>])
                              @@ ("PUFC05_AGE" :> [dtype |-> "object", vals |-> << Text >>]),
                        rows |-> 1])],
     [name |-> "lfs_jul2020.csv", error |-> "No columns to parse from file", content |-> None],
     [name |-> "oct_wave.csv", error |-> "",
      content |-> Some([columns |-> << "CYEAR", "SVYYR" >>,
                        data |-> ("CYEAR" :> [dtype |-> "num", vals |-> << Num(2016), NaN, NaN >>])
                              @@ ("SVYYR" :> [dtype |-> "num", vals |-> << NaN, NaN, NaN >>]),
                        rows |-> 3])],
     [name |-> "wave_a.csv", error |-> "",
      content |-> Some([columns |-> << "EXTRA" >>,
                        data |-> ("EXTRA" :> [dtype |-> "num", vals |-> << Num(9) >>]),
                        rows |-> 1])],
     [name |-> "wave_b.csv", error |-> "",
      content |-> Some([columns |-> << "PUFSVYMO" >>,
                        data |-> ("PUFSVYMO" :> [dtype |-> "num", vals |-> << NaN, Num(7) >>]),
                        rows |-> 2])] >>

(* files: the directory's files, deduplicated and sorted by lower-cased name. *)
sorted_files(names) == SelectSeq(RunFiles, LAMBDA f : f.name \in names)

(* A run over any directory of at most MaxFiles of the files. *)
Init ==
  /\ \E names \in SUBSET {RunFiles[k].name : k \in 1..Len(RunFiles)} :
       /\ Cardinality(names) <= MaxFiles
       /\ files = sorted_files(names)
  /\ batch_size \in 1 .. MaxBatch
  /\ RunStart

Spec == Init /\ [][Next]_vars

(* One release of the input directory, of any modelled name and content. *)
InitFile ==
  /\ \E name \in Range(FileNames), content \in {None} \cup {Some(f) : f \in FileFrames} :
       files = << [name |-> name, content |-> content,
                   error |-> IF content = None THEN "No columns to parse from file" ELSE ""] >>
  /\ batch_size = DEFAULT_BATCH_SIZE
  /\ RunStart

SpecFile == InitFile /\ [][Next]_vars

(* A run with the default batch size over any directory of at most
   MaxFiles of the files. *)
InitLive ==
  /\ \E names \in SUBSET {RunFiles[k].name : k \in 1..Len(RunFiles)} :
       /\ Cardinality(names) <= MaxFiles
       /\ files = sorted_files(names)
  /\ batch_size = DEFAULT_BATCH_SIZE
  /\ RunStart

(* The run as a sequential program: whenever a step is possible, one is
   taken. *)
SpecLive == InitLive /\ [][Next]_vars /\ WF_vars(Next)

(***************************************************************************)
(* The translators as a state machine: one call translate(code, year) of   *)
(* one registered translator, its arguments drawn from bounded sets.       *)
(***************************************************************************)

Translators == {TRANSLATION_MAP[t] : t \in DOMAIN TRANSLATION_MAP}

(* Release years around every era boundary of the translators. *)
Years == 2008 .. 2025

(* Raw codes around every table key and range boundary. *)
Codes ==
  (-1 .. 30) \cup (58 .. 78) \cup (105 .. 355) \cup (405 .. 412) \cup (497 .. 512)
  \cup (557 .. 562) \cup (597 .. 612) \cup (697 .. 701)
  \cup {999, 1000, 1001, 1999, 2000, 2001, 10010, 10011, 10012, 24011, 64011, 64012}

RunIdle ==
  /\ files = << >>
  /\ batch_size = DEFAULT_BATCH_SIZE
  /\ i = 0
  /\ pc = "idle"
  /\ df = None
  /\ year = None
  /\ month = None
  /\ out_df = None
  /\ col_reports = None
  /\ log_messages = << >>
  /\ all_parquet_files = << >>
  /\ all_file_reports = << >>
  /\ errors = << >>
  /\ total_rows = 0
  /\ batch_start = 0
  /\ first_batch = TRUE
  /\ combined_file = None
  /\ outputs = no_outputs
  /\ run_result = "running"

run_vars == << files, i, pc, df, year, month, out_df, col_reports, log_messages,
               all_parquet_files, all_file_reports, errors, total_rows,
               batch_size, batch_start, first_batch, combined_file, outputs, run_result >>

InitTranslate ==
  /\ call \in [fn : {"translate"}, name : Translators,
               code : {NaN} \cup {Num(c) : c \in Codes}, year : Years,
               done : {FALSE}, result : {NaN}]
  /\ RunIdle

Translate ==
  /\ call.fn = "translate"
  /\ ~call.done
  /\ call' = [call EXCEPT !.done = TRUE,
                          !.result = translate(call.name, call.code, call.year)]
  /\ UNCHANGED run_vars

NextTranslate == Translate

SpecTranslate == InitTranslate /\ [][NextTranslate]_vars

(***************************************************************************)
(* The per-field step as a state machine: one canonical field resolved,    *)
(* cleaned and translated against one release that holds some of the       *)
(* field's source variants.                                                *)
(***************************************************************************)

(* Rows of a release in the per-field harness. *)
FieldRows == 5

(* A column of n cells: k cells a, then b. *)
Fill(n, k, a, b) == [j \in 1..n |-> IF j <= k THEN a ELSE b]

FillCounts(n) == {0, 1, n - 1, n} \cap (0 .. n)

(* Numeric columns hold numbers and NaN; an object column holds at least
   one string. *)
FieldColumns(n) ==
  {[dtype |-> "num", vals |-> Fill(n, k, a, NaN)] :
      k \in FillCounts(n), a \in {Num(1), Num(6)}}
  \cup
  {[dtype |-> "object", vals |-> Fill(n, k, a, b)] :
      k \in {k0 \in FillCounts(n) : n >= 1}, a \in {Text, NumStr(1)}, b \in {Blank}}
  \cup
  {[dtype |-> "object", vals |-> Fill(n, k, a, NaN)] :
      k \in {k0 \in FillCounts(n) : k0 >= 1}, a \in {Text, NumStr(1)}}
  \cup
  {[dtype |-> "object", vals |-> Fill(n, k, Text, NumStr(6))] :
      k \in {k0 \in {n - 1} : n >= 1}}

(* The fields resolved in the harness, and the columns a release may hold
   for each, in the release's own column order and spelling. *)
FieldTargets == {"PUFC06_MSTAT", "PUFHHNUM"}

FieldSources(target) ==
  IF target = "PUFC06_MSTAT" THEN << "C08_MS", "c08_mstat", "PUFC06_MSTAT" >>
  ELSE << "Hhnum", "PUFHHNUM" >>

FieldFrames(target) ==
  UNION { UNION { { [columns |-> SelectSeq(FieldSources(target), LAMBDA c : c \in present),
                     data |-> d, rows |-> n] :
                    d \in [present -> FieldColumns(n)] } :
                  present \in SUBSET Range(FieldSources(target)) } :
          n \in 0 .. FieldRows }

InitField ==
  /\ \E target \in FieldTargets :
       call \in [fn : {"field"}, target : {target}, frame : FieldFrames(target),
                 year : IF target \in DOMAIN TRANSLATION_MAP THEN {2009, 2016} ELSE {2016},
                 done : {FALSE}, result : {None}]
  /\ RunIdle

ProcessField ==
  /\ call.fn = "field"
  /\ ~call.done
  /\ call' = [call EXCEPT
       !.done = TRUE,
       !.result = Some(process_field(call.frame, col_map_upper_of(call.frame),
                                     call.target, call.year, call.frame.rows))]
  /\ UNCHANGED run_vars

NextField == ProcessField

SpecField == InitField /\ [][NextField]_vars

(***************************************************************************)
(* harmonize.py: main as a state machine, one call on one raw data file    *)
(* and one crosswalk.  A harmonized value is a column of the data or the   *)
(* scalar pd.NA.                                                           *)
(***************************************************************************)

(* Rows of the data file in the crosswalk harness. *)
HarmRows == 2

EMPSTAT_PRECEDENCE == << "NEWEMPST", "CEMPST2", "CEMPST1", "ANSOEMPSTAT" >>

(* precedence.py: the documented order of PUFNEWEMPSTAT. *)
PRECEDENCE_RULES == ("PUFNEWEMPSTAT" :> [order |-> << "NEWEMPST", "CEMPST2", "CEMPST1", "ANSOEMPSTAT" >>])

(* value = pd.NA *)
NA == [kind |-> "NA", vals |-> << >>]

(* value = df[v] *)
Series(col) == [kind |-> "series", vals |-> col.vals]

(* for v in names: if v in df.columns: value = df[v]; break *)
first_present(names, frame) ==
  LET present == {k \in 1..Len(names) : names[k] \in Range(frame.columns)}
  IN IF present = {} THEN NA
     ELSE Series(frame.data[names[CHOOSE k \in present : \A j \in present : k <= j]])

(* The body of the loop over the crosswalk, for one block. *)
harmonize_block(frame, block) ==
  LET master == block.name
      source_vars == block.variables
  IN IF master \in Range(frame.columns) THEN Series(frame.data[master])
     ELSE IF master = "PUFNEWEMPSTAT" THEN first_present(EMPSTAT_PRECEDENCE, frame)
     ELSE first_present(source_vars, frame)

(* harmonized: master variable -> value, after the loop. *)
harmonize(frame, variable_crosswalk) ==
  [master \in {variable_crosswalk[k].name : k \in 1..Len(variable_crosswalk)} |->
     LET ks == {k \in 1..Len(variable_crosswalk) : variable_crosswalk[k].name = master}
     IN harmonize_block(frame, variable_crosswalk[CHOOSE k \in ks : \A j \in ks : j <= k])]

(* The crosswalk of the harness: the employment status and one variable of
   the default branch. *)
HarmCrosswalk ==
  << [name |-> "PUFNEWEMPSTAT", variables |-> << "NEWEMPSTAT" >>],
     [name |-> "PUFC05_AGE", variables |-> << "C07_AGE", "AGE" >>] >>

(* The code a raw employment-status column holds where it is filled. *)
HarmCode(name) ==
  CASE name = "NEWEMPST" -> 1
    [] name = "CEMPST2" -> 2
    [] name = "CEMPST1" -> 3
    [] name = "ANSOEMPSTAT" -> 4
    [] name = "PUFNEWEMPSTAT" -> 5
    [] OTHER -> 30

HarmColumns == << "PUFNEWEMPSTAT", "NEWEMPST", "CEMPST2", "CEMPST1", "ANSOEMPSTAT", "AGE" >>

(* The cells of a column of n rows: the raw status columns have gaps in any
   row, the other two are full. *)
HarmCells(name, n) ==
  IF name \in Range(EMPSTAT_PRECEDENCE)
  THEN SeqsOfLen({NaN, Num(HarmCode(name))}, n)
  ELSE {[r \in 1..n |-> Num(HarmCode(name))]}

(* A column of the data file: absent, or one of its modelled contents. *)
HarmOptions(name, n) == {None} \cup {Some(v) : v \in HarmCells(name, n)}

HarmFrames(n) ==
  { LET present == {c \in Range(HarmColumns) : d[c] # None}
    IN [columns |-> SelectSeq(HarmColumns, LAMBDA c : c \in present),
        data |-> [c \in present |-> [dtype |-> "num", vals |-> d[c][1]]],
        rows |-> n] :
    d \in [PUFNEWEMPSTAT : HarmOptions("PUFNEWEMPSTAT", n),
           NEWEMPST : HarmOptions("NEWEMPST", n),
           CEMPST2 : HarmOptions("CEMPST2", n),
           CEMPST1 : HarmOptions("CEMPST1", n),
           ANSOEMPSTAT : HarmOptions("ANSOEMPSTAT", n),
           AGE : HarmOptions("AGE", n)] }

InitHarmonize ==
  /\ \E n \in 1 .. HarmRows :
       call \in [fn : {"harmonize"}, df : HarmFrames(n), variable_crosswalk : {HarmCrosswalk},
                 done : {FALSE}, harmonized : {<< >>}]
  /\ RunIdle

Harmonize ==
  /\ call.fn = "harmonize"
  /\ ~call.done
  /\ call' = [call EXCEPT !.done = TRUE,
                          !.harmonized = harmonize(call.df, call.variable_crosswalk)]
  /\ UNCHANGED run_vars

NextHarmonize == Harmonize

SpecHarmonize == InitHarmonize /\ [][NextHarmonize]_vars

(***************************************************************************)
(* The loop over the canonical fields, one field per step and in any       *)
(* order.  The loop state is what an iteration reads and writes: the raw   *)
(* frame and the release year, the output table and col_reports.           *)
(***************************************************************************)

(* The fields the loop of the harness goes through. *)
OrderTargets == {"PUFSVYYR", "PUFC06_MSTAT", "PUFC05_AGE", "PUFHHNUM"}

OrderLayouts ==
  { << "pufsvyyr", "C08_MSTAT" >>,
    << "C08_MSTAT", "PUFC05_AGE" >>,
    << "SVYYR", "C08_MSTAT" >> }

(* The releases of n rows of the harness. *)
OrderFrames(n) == UNION { FramesOf(layout, n) : layout \in OrderLayouts }

(* The loop state before the first iteration. *)
loop_start(frame, yr) ==
  [df |-> frame, year |-> yr, out_df |-> empty_table(frame.rows), col_reports |-> << >>]

(* Variant of the iteration that takes the release year from the survey-year
   column once it is resolved. *)
field_step_year_from_column(st, target) ==
  LET r == process_field(st.df, col_map_upper_of(st.df), target, st.year, st.df.rows)
      m == IF target = "PUFSVYYR" /\ r.report.status # "UNMAPPED"
           THEN year_mode([dtype |-> "num", vals |-> r.column]) ELSE None
  IN [df |-> st.df,
      year |-> IF truthy(m) THEN m[1] ELSE st.year,
      out_df |-> set_column(st.out_df, target, r.column),
      col_reports |-> (target :> r.report) @@ st.col_reports]

(* One iteration of the loop: out_df[target] and col_reports[target] are
   assigned; df and year are only read. *)
field_step(st, target) ==
  LET r == process_field(st.df, col_map_upper_of(st.df), target, st.year, st.df.rows)
  IN [df |-> st.df,
      year |-> st.year,
      out_df |-> set_column(st.out_df, target, r.column),
      col_reports |-> (target :> r.report) @@ st.col_reports]

InitOrder ==
  /\ \E n \in 0 .. MaxRows :
       call \in [fn : {"order"}, frame : OrderFrames(n), year : {2009, 2016},
                 todo : {OrderTargets}, st : {<< >>}]
  /\ RunIdle

(* The loop is entered. *)
EnterLoop ==
  /\ call.fn = "order"
  /\ call.st = << >>
  /\ call' = [call EXCEPT !.st = loop_start(call.frame, call.year)]
  /\ UNCHANGED run_vars

(* One more field is processed, any of those not yet done. *)
FieldStep ==
  /\ call.fn = "order"
  /\ call.st # << >>
  /\ \E target \in call.todo :
       call' = [call EXCEPT !.st = field_step(call.st, target),
                            !.todo = call.todo \ {target}]
  /\ UNCHANGED run_vars

NextOrder == EnterLoop \/ FieldStep

SpecOrder == InitOrder /\ [][NextOrder]_vars

(***************************************************************************)
(* build_column_summary as a state machine: one call on the reports of up  *)
(* to MaxReports releases, each the report process_file makes of a release *)
(* that holds one variant of the marital-status field.                     *)
(***************************************************************************)

(* Rows of a release in the summary harness. *)
SummaryRows == 10

(* Reports passed to build_column_summary. *)
MaxReports == 3

ReportNames == << "wave_a.csv", "wave_b.csv", "wave_c.csv", "wave_d.csv", "wave_e.csv" >>

SummaryFrames ==
  { [columns |-> << v >>,
     data |-> (v :> [dtype |-> "num", vals |-> Fill(SummaryRows, k, Num(1), NaN)]),
     rows |-> SummaryRows] :
    v \in {"C08_MSTAT"},
    k \in {0, SummaryRows \div 2, SummaryRows - 1, SummaryRows} }
  \cup
  { [columns |-> << "PUFC06_MSTAT" >>,
     data |-> ("PUFC06_MSTAT" :>
                 [dtype |-> "num", vals |-> Fill(SummaryRows, SummaryRows - 1, Num(1), NaN)]),
     rows |-> SummaryRows] }
  \cup
  { [columns |-> << "C08_MS" >>,
     data |-> ("C08_MS" :> [dtype |-> "object", vals |-> Fill(SummaryRows, 1, Text, NaN)]),
     rows |-> SummaryRows] }

(* The file_report of a release whose name holds neither year nor month. *)
report_of(name, frame) ==
  LET yr == detect_year(name, frame)
      y == IF yr = None THEN DEFAULT_YEAR ELSE yr[1]
  IN file_report_of(name, y, None, frame,
       [t \in Range(OUTPUT_SCHEMA) |->
          process_field(frame, col_map_upper_of(frame), t, y, frame.rows).report])

InitSummary ==
  /\ \E n \in 1 .. MaxReports :
       \E fs \in [1..n -> SummaryFrames] :
          call = [fn |-> "summary",
                  reports |-> [k \in 1..n |-> report_of(ReportNames[k], fs[k])],
                  done |-> FALSE, result |-> None]
  /\ RunIdle

BuildColumnSummary ==
  /\ call.fn = "summary"
  /\ ~call.done
  /\ call' = [call EXCEPT !.done = TRUE,
                          !.result = Some(build_column_summary(call.reports))]
  /\ UNCHANGED run_vars

NextSummary == BuildColumnSummary

SpecSummary == InitSummary /\ [][NextSummary]_vars

(***************************************************************************)
(* Claims about the translators (SpecTranslate)                            *)
(***************************************************************************)

(* The year-dependent translators and the upper bounds of their era chains. *)
YearDependent == {"translate_mstat", "translate_grade", "translate_wynot"}

era_bounds(fn) ==
  CASE fn = "translate_mstat" -> mstat_eras
    [] fn = "translate_grade" -> grade_eras
    [] fn = "translate_wynot" -> wynot_eras

(* Era band k of a chain as a closed interval of years: above the previous
   bound, up to its own bound; the last band has no upper bound. *)
in_band(bounds, k, yr) ==
  /\ (k > 1 => yr >= bounds[k - 1] + 1)
  /\ (k <= Len(bounds) => yr <= bounds[k])

(* The codes an era of a translator lists: the keys of its lookup table and
   its accepted ranges.  An era that is the identity lists every code. *)
listed(fn, yr, c) ==
  CASE fn = "translate_mstat" ->
         LET e == era_of(mstat_eras, yr)
         IN CASE e = 1 -> c \in DOMAIN mstat_2010
              [] e = 2 -> c \in DOMAIN mstat_2014
              [] e = 3 -> c \in DOMAIN mstat_2023
              [] OTHER -> TRUE
    [] fn = "translate_grade" ->
         LET e == era_of(grade_eras, yr)
         IN CASE e = 1 -> c \in (0 .. 5) \cup (60 .. 68) \cup (70 .. 76)
              [] e = 2 -> c \in {0, 10, 270, 280, 350} \cup DOMAIN grade_2016_elementary
                                \cup (310 .. 340) \cup (410 .. 499) \cup (510 .. 599)
                                \cup (610 .. 699)
              [] e = 3 -> c \in {0, 1, 2, 10, 170, 180, 191, 192, 250, 350}
                                \cup (110 .. 160) \cup (210 .. 240) \cup (310 .. 320)
                                \cup (410 .. 499) \cup (510 .. 599) \cup (610 .. 699)
              [] e = 4 -> c \in (0 .. 1000) \cup {2000} \cup (10011 .. 64011)
              [] OTHER -> TRUE
    [] fn = "translate_wynot" ->
         IF era_of(wynot_eras, yr) = 1 THEN c \in 0 .. 9 ELSE TRUE
    [] fn = "translate_pclass" -> c \in 0 .. 6
    [] fn = "translate_natem" -> c \in 1 .. 3
    [] fn = "translate_pbasis" -> c \in 0 .. 7
    [] fn = "translate_conwr" -> c \in 1 .. 5
    [] fn = "translate_yesno" -> c \in 1 .. 2
    [] fn = "translate_rel" -> c \in 1 .. 26

(* C3: translators fail closed: a code that the era's table or range does
   not list is translated to missing, never to a default code and never to
   itself. *)
C3_FailClosed ==
  (call.fn = "translate" /\ call.done /\ call.code.t = "num"
     /\ ~listed(call.name, call.year, call.code.v))
  => call.result = NaN

(* C5: era bands are exhaustive and disjoint: for each year-dependent
   translator every year lies in exactly one band of the chain, and that is
   the band whose table the translator applies. *)
C5_EraBandsPartition ==
  (call.fn = "translate" /\ call.name \in YearDependent)
  => LET b == era_bounds(call.name)
         sel == {k \in 1 .. Len(b) + 1 : in_band(b, k, call.year)}
     IN /\ Cardinality(sel) = 1
        /\ era_of(b, call.year) \in sel

(* C5 witness: translate_mstat has been applied in the first year of its
   second band, where code 6 is listed (and maps to 7) unlike in the first. *)
C5_Witness ==
  /\ call.fn = "translate" /\ call.done
  /\ call.name = "translate_mstat" /\ call.year = 2011
  /\ call.code = Num(6) /\ call.result = Num(7)

(***************************************************************************)
(* Claims about the column resolver (SpecField)                            *)
(***************************************************************************)

(* The columns of a release whose name matches a variant, case-insensitively. *)
columns_named(frame, variant) ==
  {c \in Range(frame.columns) : upper(c) = upper(variant)}

(* A column with at least one non-missing value that, when text-typed, has
   at least one value that is not blank. *)
has_value(col) ==
  /\ \E k \in 1..Len(col.vals) : col.vals[k].t # "nan"
  /\ (col.dtype = "object" => \E k \in 1..Len(col.vals) : col.vals[k].t \notin {"nan", "blank"})

(* A column that is entirely missing or blank. *)
entirely_empty(col) == \A k \in 1..Len(col.vals) : col.vals[k].t \in {"nan", "blank"}

acceptable(frame, variant) ==
  \E c \in columns_named(frame, variant) : has_value(frame.data[c])

(* C1: the variant get_column returns is the earliest entry of the priority
   list that is present (case-insensitively) with a non-missing, non-blank
   value, whatever later variants hold; the resolved column is that
   variant's column. *)
C1_EarliestVariantWins ==
  (call.fn = "field" /\ call.done)
  => LET prio == candidates(call.target)
         ok == {k \in 1..Len(prio) : acceptable(call.frame, prio[k])}
         r == call.result[1].report
     IN IF ok = {} THEN r.source_col = None
        ELSE LET first == CHOOSE k \in ok : \A j \in ok : k <= j
             IN /\ r.source_col = Some(prio[first])
                /\ \A c \in columns_named(call.frame, prio[first]) :
                     r.raw_nonnull_count = notna_sum(call.frame.data[c].vals)

(* C1 witness: the second variant, spelled in lower case in the release, is
   resolved although the first variant is present but empty and a later
   variant has more non-missing values. *)
C1_Witness ==
  /\ call.fn = "field" /\ call.done /\ call.target = "PUFC06_MSTAT"
  /\ Range(call.frame.columns) = {"PUFC06_MSTAT", "c08_mstat", "C08_MS"}
  /\ entirely_empty(call.frame.data["PUFC06_MSTAT"])
  /\ notna_sum(call.frame.data["c08_mstat"].vals) = 1
  /\ has_value(call.frame.data["C08_MS"])
  /\ notna_sum(call.frame.data["C08_MS"].vals) = call.frame.rows
  /\ call.frame.rows >= 2
  /\ call.result[1].report.source_col = Some("C08_MSTAT")

(* C2: a variant whose column is entirely missing or blank is never
   selected; resolution falls through to the next variant (priority
   [PUFHHNUM, HHNUM], the first empty and the second 4/5 filled, resolves
   to HHNUM with 80% retention), and with no acceptable variant the field
   is reported unmatched. *)
C2_EmptyVariantNeverSelected ==
  (call.fn = "field" /\ call.done)
  => LET r == call.result[1].report
         f == call.frame
     IN /\ r.source_col # None =>
             \A c \in columns_named(f, r.source_col[1]) : ~entirely_empty(f.data[c])
        /\ (\A c \in Range(f.columns) : entirely_empty(f.data[c])) =>
             (r.source_col = None /\ r.status = "UNMAPPED")
        /\ ( /\ call.target = "PUFHHNUM" /\ f.rows = 5
             /\ Range(f.columns) = {"PUFHHNUM", "Hhnum"}
             /\ entirely_empty(f.data["PUFHHNUM"])
             /\ Cardinality({k \in 1..5 : f.data["Hhnum"].vals[k].t \in {"num", "numstr"}}) = 4 )
           => (r.source_col = Some("HHNUM") /\ r.retention_pct = 8000)

(* C2 witness: the priority-[A, B] example has been resolved: A is present
   and entirely blank, B holds 4 numbers in 5 rows. *)
C2_Witness ==
  /\ call.fn = "field" /\ call.done /\ call.target = "PUFHHNUM"
  /\ call.frame.rows = 5
  /\ Range(call.frame.columns) = {"PUFHHNUM", "Hhnum"}
  /\ call.frame.data["PUFHHNUM"] = [dtype |-> "object", vals |-> Fill(5, 0, Blank, Blank)]
  /\ call.frame.data["Hhnum"] = [dtype |-> "num", vals |-> Fill(5, 4, Num(6), NaN)]
  /\ call.result[1].report.source_col = Some("HHNUM")
  /\ call.result[1].report.retention_pct = 8000

(***************************************************************************)
(* Claims about process_file and the run (SpecFile, Spec)                  *)
(***************************************************************************)

(* The input release a report or a persisted table was made from. *)
input_of(name) == files[CHOOSE k \in 1..Len(files) : files[k].name = name].content[1]

all_cells(vals, c) == \A k \in 1..Len(vals) : vals[k] = c

RECURSIVE table_nonnull(_, _, _)
table_nonnull(tables, t, k) ==
  IF k > Len(tables) THEN 0
  ELSE notna_sum(tables[k].table.data[t]) + table_nonnull(tables, t, k + 1)

RECURSIVE reported_nonnull(_, _, _)
reported_nonnull(reports, t, k) ==
  IF k > Len(reports) THEN 0
  ELSE reports[k].columns[t].final_nonnull_count + reported_nonnull(reports, t, k + 1)

(* C4: round-trip accounting: for every canonical field, the non-missing
   cells of the field over all emitted tables number the sum of the
   final_nonnull_count the per-release diagnostics report for it. *)
C4_RoundTrip ==
  \A t \in Range(OUTPUT_SCHEMA) :
    table_nonnull(all_parquet_files, t, 1) = reported_nonnull(all_file_reports, t, 1)

(* The lines of the log between the FILE line of a release and the next
   FILE line. *)
log_block(log, name) ==
  LET start == {p \in 1..Len(log) : log[p] = line("FILE", name)}
  IN {log[q].kind : q \in {q0 \in 1..Len(log) :
                             \E p \in start : /\ p < q0
                                              /\ \A m \in (p + 1) .. q0 : log[m].kind # "FILE"}}

WARNING_DEFAULT == "WARNING: Could not detect year - defaulting"

(* C6 (as amended): every row of an emitted table carries the inferred year
   in PUFSVYYR, whatever variant was resolved; PUFSVYMO carries the inferred
   month when the file name yields one, and otherwise keeps the cleaned
   values of the resolved variant (missing when none is resolved). *)
table_locked(table, yr, mo, frame) ==
  /\ all_cells(table.data["PUFSVYYR"], Num(yr))
  /\ mo # None => all_cells(table.data["PUFSVYMO"], Num(mo[1]))
  /\ mo = None =>
       table.data["PUFSVYMO"] =
         process_field(frame, col_map_upper_of(frame), "PUFSVYMO", yr, frame.rows).column

C6_InferredYearMonthLocked ==
  /\ pc = "emit" => table_locked(out_df[1], year[1], month, df[1])
  /\ \A k \in 1..Len(all_parquet_files) :
       /\ all_file_reports[k].month = extract_year_month(all_file_reports[k].file).month
       /\ table_locked(all_parquet_files[k].table, all_file_reports[k].year,
                       all_file_reports[k].month, input_of(all_file_reports[k].file))

(* C6 as stated: PUFSVYYR is the inferred year and PUFSVYMO the inferred
   month (missing when none is inferred) in every row of every emitted
   table. *)
C6_Original ==
  \A k \in 1..Len(all_parquet_files) :
    LET table == all_parquet_files[k].table
        rep == all_file_reports[k]
    IN /\ all_cells(table.data["PUFSVYYR"], Num(rep.year))
       /\ all_cells(table.data["PUFSVYMO"],
                    IF rep.month # None THEN Num(rep.month[1]) ELSE NaN)

(* C6 witness: a release named apr2009 whose own year column says 2014 and
   whose month column says 7 has been emitted with 2009 and 4 in every row. *)
C6_Witness ==
  /\ Len(all_parquet_files) = 1
  /\ all_file_reports[1].file = "apr2009.csv"
  /\ all_file_reports[1].rows = 2
  /\ all_file_reports[1].columns["PUFSVYYR"].source_col = Some("PUFSVYYR")
  /\ all_file_reports[1].columns["PUFSVYMO"].source_col = Some("PUFSVYMO")
  /\ all_cells(input_of("apr2009.csv").data["pufsvyyr"].vals, Num(2014))
  /\ all_cells(input_of("apr2009.csv").data["PUFSVYMO"].vals, Num(7))
  /\ all_cells(all_parquet_files[1].table.data["PUFSVYYR"], Num(2009))
  /\ all_cells(all_parquet_files[1].table.data["PUFSVYMO"], Num(4))

(* A year column yields a year when it is present and its mode is a
   non-zero number. *)
yields_year(frame, c) ==
  \E n \in columns_named(frame, c) :
    year_mode(frame.data[n]) # None /\ year_mode(frame.data[n])[1] # 0

(* C7: the release year is the year in the file name when there is one,
   else the mode of the first of SVYYR, CYEAR, PUFSVYYR that yields a year,
   else the default 2020; and a release emits one output row per input row. *)
C7_YearInference ==
  /\ pc \in {"fields", "lock", "emit"} =>
       LET frame == df[1]
           ident == extract_year_month(files[i].name).year
           ok == {k \in 1..Len(YEAR_COLUMNS) : yields_year(frame, YEAR_COLUMNS[k])}
       IN year = IF ident # None THEN ident
                 ELSE IF ok # {}
                      THEN LET first == CHOOSE k \in ok : \A j \in ok : k <= j
                               n == CHOOSE n \in columns_named(frame, YEAR_COLUMNS[first]) : TRUE
                           IN year_mode(frame.data[n])
                      ELSE Some(DEFAULT_YEAR)
  /\ \A k \in 1..Len(all_parquet_files) :
       all_parquet_files[k].table.rows = input_of(all_file_reports[k].file).rows

(* C8: a processed release's year was defaulted exactly when the log block
   of the release holds the warning, so a defaulted 2020 and a detected 2020
   are told apart. *)
C8_DefaultedYearFlagged ==
  \A k \in 1..Len(all_file_reports) :
    LET rep == all_file_reports[k]
        undetected == detect_year(rep.file, input_of(rep.file)) = None
    IN /\ undetected <=> WARNING_DEFAULT \in log_block(log_messages, rep.file)
       /\ undetected => rep.year = DEFAULT_YEAR

(* C8 witness: a run has processed a release whose name holds 2020 and a
   release without any year; both report year 2020 and only the log block
   of the second holds the warning. *)
C8_Witness ==
  /\ pc = "done"
  /\ \E j, k \in 1..Len(all_file_reports) :
       /\ all_file_reports[j].file = "lfs_2020.csv"
       /\ all_file_reports[k].file = "wave_a.csv"
       /\ all_file_reports[j].year = 2020
       /\ all_file_reports[k].year = 2020
       /\ WARNING_DEFAULT \notin log_block(log_messages, "lfs_2020.csv")
       /\ WARNING_DEFAULT \in log_block(log_messages, "wave_a.csv")

(* C9: an emitted table has exactly the columns of OUTPUT_SCHEMA, in schema
   order, and one row per input row; no other column of the release is in
   it. *)
schema_table(table, frame) ==
  /\ table.columns = OUTPUT_SCHEMA
  /\ DOMAIN table.data = Range(OUTPUT_SCHEMA)
  /\ table.rows = frame.rows
  /\ \A c \in DOMAIN table.data : Len(table.data[c]) = frame.rows
  /\ \A c \in Range(frame.columns) :
       c \notin Range(OUTPUT_SCHEMA) => c \notin Range(table.columns)

C9_OutputHasSchema ==
  /\ pc = "emit" => schema_table(out_df[1], df[1])
  /\ \A k \in 1..Len(all_parquet_files) :
       schema_table(all_parquet_files[k].table, input_of(all_parquet_files[k].path))

(* C9 witness: a release of two rows with a column outside the schema and a
   column resolved through a non-canonical name has been emitted. *)
C9_Witness ==
  /\ Len(all_parquet_files) = 1
  /\ Range(input_of(all_parquet_files[1].path).columns) = {"EXTRA", "C08_MSTAT", "PUFSVYMO"}
  /\ all_parquet_files[1].table.rows = 2
  /\ all_file_reports[1].columns["PUFC06_MSTAT"].source_col = Some("C08_MSTAT")

(* The fields whose column the lock overwrites. *)
locked_fields(mo) == {"PUFSVYYR"} \cup (IF mo # None THEN {"PUFSVYMO"} ELSE {})

unmapped_reported(rep, t, n_rows) ==
  /\ rep.status = "UNMAPPED"
  /\ rep.raw_nonnull_count = 0
  /\ rep.final_nonnull_count = 0
  /\ rep.null_count = n_rows
  /\ rep.candidates_searched = candidates(t)

(* C10 (as amended): a field with no accepted variant is reported UNMAPPED
   with zero counts and the variants searched, its output column is
   entirely missing unless the lock sets it (PUFSVYYR always, PUFSVYMO when
   a month is inferred), and the release still reaches emission with every
   schema column. *)
C10_UnmappedField ==
  pc = "emit" =>
    /\ DOMAIN out_df[1].data = Range(OUTPUT_SCHEMA)
    /\ \A t \in Range(OUTPUT_SCHEMA) :
         (\A v \in Range(candidates(t)) : ~acceptable(df[1], v)) =>
           /\ unmapped_reported(col_reports[1][t], t, df[1].rows)
           /\ t \notin locked_fields(month) => all_cells(out_df[1].data[t], NaN)

(* C10 as stated: the output column of every field with no accepted variant
   is entirely missing. *)
C10_Original ==
  pc = "emit" =>
    \A t \in Range(OUTPUT_SCHEMA) :
      (\A v \in Range(candidates(t)) : ~acceptable(df[1], v)) =>
        /\ unmapped_reported(col_reports[1][t], t, df[1].rows)
        /\ all_cells(out_df[1].data[t], NaN)

(* C10 witness: a release of two rows in which the marital-status field has
   a present but empty variant and the month field is resolved is about to
   be emitted. *)
C10_Witness ==
  /\ pc = "emit"
  /\ df[1].rows = 2
  /\ "C08_MSTAT" \in Range(df[1].columns)
  /\ all_cells(df[1].data["C08_MSTAT"].vals, NaN)
  /\ col_reports[1]["PUFC06_MSTAT"].status = "UNMAPPED"
  /\ all_cells(out_df[1].data["PUFC06_MSTAT"], NaN)
  /\ col_reports[1]["PUFSVYMO"].status = "MAPPED"
  /\ col_reports[1]["PUFSVYMO"].final_nonnull_count = 2


(***************************************************************************)
(* Claims about the run of process_all_batched (Spec, SpecLive)            *)
(***************************************************************************)

(* The lines of the log block of a release, kind and text. *)
block_lines(log, name) ==
  LET start == {p \in 1..Len(log) : log[p] = line("FILE", name)}
  IN {log[q] : q \in {q0 \in 1..Len(log) :
                        \E p \in start : /\ p < q0
                                         /\ \A m \in (p + 1) .. q0 : log[m].kind # "FILE"}}

RECURSIVE rows_of(_, _)
rows_of(parquets, k) ==
  IF k > Len(parquets) THEN 0 ELSE parquets[k].table.rows + rows_of(parquets, k + 1)

unreadable == {k \in 1..Len(files) : files[k].content = None}

(* C11: an unreadable release is skipped: it has no persisted table and no
   diagnostic record, no row of the coverage matrix, no count in the
   per-field summary and no row in the combined artifact; once it was
   attempted its log block holds the error text under the FILE line of its
   name; and the releases after it are attempted all the same. *)
C11_UnreadableSkipped ==
  \A k \in unreadable :
    LET name == files[k].name
    IN /\ \A p \in 1..Len(all_parquet_files) : all_parquet_files[p].path # name
       /\ \A r \in 1..Len(all_file_reports) : all_file_reports[r].file # name
       /\ Len(all_file_reports) <= Len(files) - Cardinality(unreadable)
       /\ outputs.per_release_report # None =>
            \A r \in 1..Len(outputs.per_release_report[1]) :
               outputs.per_release_report[1][r].file # name
       /\ outputs.coverage_matrix # None =>
            /\ Len(outputs.coverage_matrix[1]) = Len(all_file_reports)
            /\ \A r \in 1..Len(outputs.coverage_matrix[1]) :
                  outputs.coverage_matrix[1][r].file # name
       /\ outputs.column_summary # None =>
            \A col \in Range(OUTPUT_SCHEMA) :
               /\ outputs.column_summary[1][col].files_total = Len(all_file_reports)
               /\ name \notin Range(outputs.column_summary[1][col].unmapped_in_files)
       /\ (pc = "done" /\ combined_file # None) =>
            combined_file[1].rows = rows_of(all_parquet_files, 1)
       /\ i > k => line("ERROR reading file", files[k].error) \in block_lines(log_messages, name)
       /\ pc \in {"combine", "done"} =>
            \A j \in (k + 1) .. Len(files) : line("FILE", files[j].name) \in Range(log_messages)

(* C11 witness: a run is over in which an unreadable release was followed
   by a release that was processed, and the diagnostics and the combined
   artifact were written. *)
C11_Witness ==
  /\ pc = "done"
  /\ \E k \in unreadable :
       /\ k < Len(files)
       /\ \E p \in 1..Len(all_parquet_files) : all_parquet_files[p].path = files[k + 1].name
       /\ line("ERROR reading file", "No columns to parse from file")
            \in block_lines(log_messages, files[k].name)
  /\ outputs.coverage_matrix # None
  /\ outputs.column_summary # None
  /\ combined_file # None

(* The releases attempted so far, in the order of their FILE lines. *)
attempts ==
  LET lines == SelectSeq(log_messages, LAMBDA l : l.kind = "FILE")
  IN [k \in 1..Len(lines) |-> lines[k].arg]

(* The number of releases the loop has entered. *)
entered ==
  CASE pc = "read" -> i - 1
    [] pc \in {"combine", "done"} -> Len(files)
    [] OTHER -> i

(* C12: the releases are attempted one at a time in the order of `files`,
   each exactly once; a fatal error is logged and recorded and the loop goes
   on; and the run always gets past the last release and ends. *)
C12_EveryReleaseAttempted ==
  /\ [](/\ attempts = [k \in 1..entered |-> files[k].name]
        /\ \A e \in 1..Len(errors) :
             /\ \E k \in 1..entered : files[k].name = errors[e][1]
             /\ "FATAL ERROR" \in log_block(log_messages, errors[e][1]))
  /\ <>(pc = "done" /\ attempts = [k \in 1..Len(files) |-> files[k].name])

(* C12 witness: a run of three releases is over whose first release failed
   with a fatal error and whose later releases were processed. *)
C12_Witness ==
  /\ pc = "done"
  /\ Len(files) = 3
  /\ Len(errors) >= 1
  /\ errors[1][1] = files[1].name
  /\ \E p \in 1..Len(all_parquet_files) : all_parquet_files[p].path = files[3].name

(* The names of the releases processed successfully, in processing order. *)
processed == [k \in 1..Len(all_parquet_files) |-> all_parquet_files[k].path]

(* The diagnostics on disk cover exactly the releases of `names`. *)
outputs_cover(names) ==
  /\ outputs.per_release_report # None
  /\ outputs.coverage_matrix # None
  /\ outputs.column_summary # None
  /\ outputs.log # None
  /\ [k \in 1..Len(outputs.per_release_report[1]) |-> outputs.per_release_report[1][k].file]
       = names
  /\ {outputs.coverage_matrix[1][k].file : k \in 1..Len(outputs.coverage_matrix[1])}
       = Range(names)
  /\ Len(outputs.coverage_matrix[1]) = Len(names)
  /\ \A col \in Range(OUTPUT_SCHEMA) :
       outputs.column_summary[1][col].files_total = Len(names)
  /\ outputs.log[1] = log_messages

(* C13: when the run is over, the per-release report, the coverage matrix,
   the per-field summary and the log are on disk, whatever releases failed,
   and they cover exactly the releases that were processed. *)
C13_DiagnosticsAlwaysWritten ==
  pc = "done" => outputs_cover(processed)

(* C14: the run ends in a failure its caller sees exactly when no release
   was processed. *)
C14_TotalFailureSurfaced ==
  pc = "done" => (run_result # "returned" <=> all_parquet_files = << >>)

(* C16: the coverage matrix has one row per processed release and one cell
   per canonical field: the literal UNMAPPED exactly when the field's status
   in the release is UNMAPPED, the retention percentage otherwise; the rows
   are ordered by year, then month (a release without month last in its
   year). *)
C16_CoverageMatrix ==
  outputs.coverage_matrix # None =>
    LET matrix == outputs.coverage_matrix[1]
    IN /\ Len(matrix) = Len(all_file_reports)
       /\ \A r \in 1..Len(all_file_reports) :
            LET rep == all_file_reports[r]
                rows == {m \in 1..Len(matrix) : matrix[m].file = rep.file}
            IN /\ Cardinality(rows) = 1
               /\ \A m \in rows :
                    /\ DOMAIN matrix[m].cells = Range(OUTPUT_SCHEMA)
                    /\ matrix[m].year = rep.year
                    /\ matrix[m].month = rep.month
                    /\ \A col \in Range(OUTPUT_SCHEMA) :
                         /\ (matrix[m].cells[col].t = "str" /\ matrix[m].cells[col].v = "UNMAPPED")
                              <=> rep.columns[col].status = "UNMAPPED"
                         /\ rep.columns[col].status # "UNMAPPED" =>
                              /\ matrix[m].cells[col].t = "num"
                              /\ matrix[m].cells[col].v = rep.columns[col].retention_pct
       /\ \A m \in 1..(Len(matrix) - 1) :
            \/ matrix[m].year < matrix[m + 1].year
            \/ /\ matrix[m].year = matrix[m + 1].year
               /\ \/ matrix[m + 1].month = None
                  \/ /\ matrix[m].month # None
                     /\ matrix[m].month[1] <= matrix[m + 1].month[1]

(* C16 witness: the matrix of a run whose second processed release is
   earlier than its first: the 2016 release is the first row, and a mapped
   field without surviving value shows 0.0. *)
C16_Witness ==
  /\ outputs.coverage_matrix # None
  /\ Len(all_file_reports) >= 2
  /\ all_file_reports[1].file = "lfs_2020.csv"
  /\ all_file_reports[2].file = "oct_wave.csv"
  /\ outputs.coverage_matrix[1][1].file = "oct_wave.csv"
  /\ \E m \in 1..Len(outputs.coverage_matrix[1]) :
       /\ outputs.coverage_matrix[1][m].file = "lfs_2020.csv"
       /\ outputs.coverage_matrix[1][m].cells["PUFC05_AGE"] = Num(0)
       /\ outputs.coverage_matrix[1][m].cells["PUFC06_MSTAT"].t = "str"

(* A row of a table. *)
row_of(table, r) == [c \in DOMAIN table.data |-> table.data[c][r]]

RECURSIVE count_rows(_, _, _)
count_rows(parquets, rho, k) ==
  IF k > Len(parquets) THEN 0
  ELSE Cardinality({r \in 1..parquets[k].table.rows : row_of(parquets[k].table, r) = rho})
       + count_rows(parquets, rho, k + 1)

(* C17: when the run is over, the combined artifact holds the rows of the
   persisted tables, each as often as the tables hold it, whatever the
   batch size; its rows are ordered by PUFSVYYR (the inferred year), then
   PUFSVYMO, missing values last. *)
C17_CombinedArtifact ==
  (pc = "done" /\ all_parquet_files # << >>) =>
    /\ combined_file # None
    /\ LET final_df == combined_file[1]
       IN /\ final_df.columns = OUTPUT_SCHEMA
          /\ final_df.rows = rows_of(all_parquet_files, 1)
          /\ final_df.rows = total_rows
          /\ \A c \in DOMAIN final_df.data : Len(final_df.data[c]) = final_df.rows
          /\ \A r \in 1..final_df.rows :
               Cardinality({q \in 1..final_df.rows : row_of(final_df, q) = row_of(final_df, r)})
                 = count_rows(all_parquet_files, row_of(final_df, r), 1)
          /\ \A r \in 1..(final_df.rows - 1) :
               LET y1 == final_df.data["PUFSVYYR"][r]
                   y2 == final_df.data["PUFSVYYR"][r + 1]
                   m1 == final_df.data["PUFSVYMO"][r]
                   m2 == final_df.data["PUFSVYMO"][r + 1]
               IN /\ y1.t = "num" /\ y2.t = "num"
                  /\ \/ y1.v < y2.v
                     \/ /\ y1.v = y2.v
                        /\ \/ m2.t = "nan"
                           \/ m1.t = "num" /\ m2.t = "num" /\ m1.v <= m2.v

(* C17 witness: three releases were combined in three batches of one, and
   the rows of the last release come first in the combined artifact. *)
C17_Witness ==
  /\ pc = "done"
  /\ batch_size = 1
  /\ Len(all_parquet_files) = 3
  /\ processed = << "lfs_2020.csv", "oct_wave.csv", "wave_b.csv" >>
  /\ combined_file[1].rows = 6
  /\ combined_file[1].data["PUFSVYYR"][1] = Num(2016)
  /\ combined_file[1].data["PUFSVYYR"][6] = Num(2020)

(***************************************************************************)
(* Claims about build_column_summary (SpecSummary)                         *)
(***************************************************************************)

(* C15: for every canonical field the summary counts the UNMAPPED reports
   as files_unmapped and the others as files_mapped; min and max retention
   are the least and greatest retention among the mapped reports and the
   average is their mean rounded to two places (all absent when no report
   is mapped); the source tally counts every mapped report once, under its
   source variant; UNMAPPED in one release and 90% in the other gives 1, 1
   and 90.0. *)
C15_ColumnSummary ==
  (call.fn = "summary" /\ call.done) =>
    LET reports == call.reports
        summary == call.result[1]
    IN \A col \in Range(OUTPUT_SCHEMA) :
         LET s == summary[col]
             unmapped == {k \in 1..Len(reports) : reports[k].columns[col].status = "UNMAPPED"}
             mapped == (1..Len(reports)) \ unmapped
             total == sum_seq([k \in 1..Len(reports) |->
                                 IF k \in mapped THEN reports[k].columns[col].retention_pct
                                 ELSE 0], 1)
             n == Cardinality(mapped)
         IN /\ s.files_total = Len(reports)
            /\ s.files_unmapped = Cardinality(unmapped)
            /\ s.files_mapped + s.files_unmapped = s.files_total
            /\ Range(s.unmapped_in_files) = {reports[k].file : k \in unmapped}
            /\ IF mapped = {}
               THEN /\ s.avg_retention_when_mapped = None
                    /\ s.min_retention_when_mapped = None
                    /\ s.max_retention_when_mapped = None
               ELSE /\ s.min_retention_when_mapped # None
                    /\ s.max_retention_when_mapped # None
                    /\ s.avg_retention_when_mapped # None
                    /\ \E k \in mapped :
                         reports[k].columns[col].retention_pct = s.min_retention_when_mapped[1]
                    /\ \E k \in mapped :
                         reports[k].columns[col].retention_pct = s.max_retention_when_mapped[1]
                    /\ \A k \in mapped :
                         /\ s.min_retention_when_mapped[1] <= reports[k].columns[col].retention_pct
                         /\ reports[k].columns[col].retention_pct <= s.max_retention_when_mapped[1]
                    /\ 2 * (n * s.avg_retention_when_mapped[1] - total) <= n
                    /\ 2 * (total - n * s.avg_retention_when_mapped[1]) <= n
            /\ DOMAIN s.source_columns_used =
                 {reports[k].columns[col].source_col[1] : k \in mapped}
            /\ \A src \in DOMAIN s.source_columns_used :
                 s.source_columns_used[src] =
                   Cardinality({k \in mapped : reports[k].columns[col].source_col = Some(src)})
            /\ (Len(reports) = 2 /\ n = 1 /\ total = 9000) =>
                 /\ s.files_mapped = 1
                 /\ s.files_unmapped = 1
                 /\ s.avg_retention_when_mapped = Some(9000)

(* C15 witness: the summary of two releases, the field UNMAPPED in the
   first and 90% retained in the second. *)
C15_Witness ==
  /\ call.fn = "summary"
  /\ call.done
  /\ Len(call.reports) = 2
  /\ call.reports[1].columns["PUFC06_MSTAT"].status = "UNMAPPED"
  /\ call.reports[2].columns["PUFC06_MSTAT"].retention_pct = 9000
  /\ call.result[1]["PUFC06_MSTAT"].files_mapped = 1
  /\ call.result[1]["PUFC06_MSTAT"].files_unmapped = 1
  /\ call.result[1]["PUFC06_MSTAT"].avg_retention_when_mapped = Some(9000)

(***************************************************************************)
(* Claims about translate_mstat and the translation step (SpecTranslate,   *)
(* SpecFile)                                                               *)
(***************************************************************************)

(* The canonical marital-status code the claim gives for a raw code in a
   year <= 2023; 0 stands for missing. *)
mstat_expected(c, yr) ==
  IF yr <= 2010
  THEN CASE c = 1 -> 1 [] c = 2 -> 2 [] c = 3 -> 4 [] c = 4 -> 6 [] c = 5 -> 8 [] OTHER -> 0
  ELSE IF yr <= 2014
  THEN CASE c = 1 -> 1 [] c = 2 -> 2 [] c = 3 -> 4 [] c = 4 -> 6 [] c = 5 -> 8 [] c = 6 -> 7
         [] OTHER -> 0
  ELSE CASE c = 1 -> 1 [] c = 2 -> 2 [] c = 3 -> 4 [] c = 4 -> 6 [] c = 5 -> 7 [] c = 6 -> 8
         [] OTHER -> 0

(* C18: translate_mstat follows the three era tables for every year <= 2023:
   the result is the table's code, or missing for a code the era's table
   does not hold (code 6 for a year <= 2010), and so it is missing or one of
   1, 2, 4, 6, 7, 8. *)
C18_MstatEras ==
  (call.fn = "translate" /\ call.done /\ call.name = "translate_mstat" /\ call.year <= 2023) =>
    LET want == IF call.code.t = "num" THEN mstat_expected(call.code.v, call.year) ELSE 0
    IN /\ call.result = (IF want = 0 THEN NaN ELSE Num(want))
       /\ call.result = NaN \/ (call.result.t = "num" /\ call.result.v \in {1, 2, 4, 6, 7, 8})
       /\ (call.code = Num(6) /\ call.year <= 2010) => call.result = NaN
       /\ (call.code = Num(6) /\ call.year >= 2015) => call.result = Num(8)

(* C18 witness: code 6 was translated for 2009 and is missing. *)
C18_Witness ==
  /\ call.fn = "translate"
  /\ call.done
  /\ call.name = "translate_mstat"
  /\ call.code = Num(6)
  /\ call.year = 2009
  /\ call.result = NaN

(* The cells a table holds for the translated fields, each with what it was
   computed from: the translator, the cleaned raw code and the year. *)
translated_cells(table, frame, yr) ==
  UNION { LET got == get_column(frame, t, col_map_upper_of(frame))
          IN IF got.col = None THEN {}
             ELSE { [fn |-> TRANSLATION_MAP[t],
                     code |-> clean_column(got.col[1]).vals[r],
                     year |-> yr,
                     result |-> table.data[t][r]] : r \in 1..table.rows } :
          t \in DOMAIN TRANSLATION_MAP }

(* C19: a cell of a translated field is the translator's value on the
   cleaned raw code and the release year, so two cells of the same
   translator, code and year are equal, whatever their rows and releases. *)
C19_TranslationDependsOnCodeAndYear ==
  LET cells == (IF pc \in {"lock", "emit"}
                THEN translated_cells(out_df[1], df[1], year[1]) ELSE {})
               \cup
               UNION { translated_cells(all_parquet_files[k].table,
                                        input_of(all_parquet_files[k].path),
                                        all_file_reports[k].year) :
                       k \in 1..Len(all_parquet_files) }
  IN /\ \A c \in cells : c.result = translate(c.fn, c.code, c.year)
     /\ \A c1, c2 \in cells :
          (c1.fn = c2.fn /\ c1.code = c2.code /\ c1.year = c2.year) => c1.result = c2.result

(* C19 witness: a release of 2009 with the raw code 6 in both rows was
   emitted; both cells are missing. *)
C19_Witness ==
  /\ Len(all_parquet_files) = 1
  /\ all_file_reports[1].year = 2009
  /\ all_file_reports[1].columns["PUFC06_MSTAT"].source_col = Some("C08_MSTAT")
  /\ input_of(all_parquet_files[1].path).data["C08_MSTAT"].vals = << Num(6), Num(6) >>
  /\ all_parquet_files[1].table.data["PUFC06_MSTAT"] = << NaN, NaN >>

(***************************************************************************)
(* Claims about the output schema (SpecFile)                               *)
(***************************************************************************)

(* The number of columns the module docstring and the banners announce. *)
ANNOUNCED_COLUMNS == 47

(* C20: OUTPUT_SCHEMA lists 47 distinct canonical fields, and every emitted
   table and the combined artifact have 47 columns. *)
C20_FortySevenColumns ==
  /\ Len(OUTPUT_SCHEMA) = ANNOUNCED_COLUMNS
  /\ Cardinality(Range(OUTPUT_SCHEMA)) = ANNOUNCED_COLUMNS
  /\ \A k \in 1..Len(all_parquet_files) :
       Len(all_parquet_files[k].table.columns) = ANNOUNCED_COLUMNS
  /\ combined_file # None => Len(combined_file[1].columns) = ANNOUNCED_COLUMNS

(***************************************************************************)
(* Claims about the flags, the phases and the accounting of a run (Spec)   *)
(***************************************************************************)

(* The fields a kind of flag line of the log names. *)
flagged(kind) == {log_messages[k].arg : k \in {j \in 1..Len(log_messages) :
                                                 log_messages[j].kind = kind}}

(* C23: when the run is over, every field whose retention over the releases
   where it is mapped is under the threshold is flagged by the aggregator,
   the fields flagged always-unmapped are exactly those no release maps, and
   the flags are no errors. *)
C23_AdvisoryFlags ==
  (pc = "done" /\ outputs.column_summary # None) =>
    LET summary == outputs.column_summary[1]
    IN /\ \A c \in Range(OUTPUT_SCHEMA) :
            (/\ summary[c].avg_retention_when_mapped # None
             /\ summary[c].avg_retention_when_mapped[1] < HIGH_NULL_THRESHOLD)
              => c \in flagged("<-- HIGH NULL")
       /\ flagged("ALWAYS UNMAPPED") = {c \in Range(OUTPUT_SCHEMA) : summary[c].files_mapped = 0}
       /\ Len(errors) = Cardinality({j \in 1..Len(log_messages) :
                                       log_messages[j].kind = "FATAL ERROR"})
       /\ run_result = "returned"

(* The non-missing cells of a field over the persisted tables. *)
RECURSIVE nonnull_of(_, _, _)
nonnull_of(parquets, c, k) ==
  IF k > Len(parquets) THEN 0
  ELSE notna_sum(parquets[k].table.data[c]) + nonnull_of(parquets, c, k + 1)

(* C23, as the code has it: for every processed release the log flags as
   low retention exactly the fields mapped in it whose retention there is
   under the threshold, so a field whose average retention over the releases
   where it is mapped is under the threshold is flagged for a release; the
   null analysis of the run flags exactly the fields whose non-missing share
   over all rows of the combined dataset is under the threshold; the fields
   flagged always-unmapped are exactly those no release maps; the flags are
   no errors. *)
C23_AdvisoryFlagsByScope ==
  /\ \A r \in 1..Len(all_file_reports) : \A c \in Range(OUTPUT_SCHEMA) :
       (/\ all_file_reports[r].columns[c].status # "UNMAPPED"
        /\ all_file_reports[r].columns[c].retention_pct < HIGH_NULL_THRESHOLD)
       <=> line("LOW RETENTION", c) \in block_lines(log_messages, all_file_reports[r].file)
  /\ (pc = "done" /\ outputs.column_summary # None) =>
       LET summary == outputs.column_summary[1]
       IN /\ \A c \in Range(OUTPUT_SCHEMA) :
               (/\ summary[c].avg_retention_when_mapped # None
                /\ summary[c].avg_retention_when_mapped[1] < HIGH_NULL_THRESHOLD)
                 => c \in flagged("LOW RETENTION")
          /\ flagged("<-- HIGH NULL") =
               {c \in Range(OUTPUT_SCHEMA) :
                  IF total_rows = 0 THEN TRUE
                  ELSE 10000 * nonnull_of(all_parquet_files, c, 1)
                         < HIGH_NULL_THRESHOLD * total_rows}
          /\ flagged("ALWAYS UNMAPPED")
               = {c \in Range(OUTPUT_SCHEMA) : summary[c].files_mapped = 0}
          /\ Len(errors) = Cardinality({j \in 1..Len(log_messages) :
                                          log_messages[j].kind = "FATAL ERROR"})
          /\ run_result = "returned"

(* C23 witness: a run over one release whose survey year is mapped with a
   retention of a third: flagged for the release, not by the null analysis
   of the run, which flags the fields no release maps. *)
C23_Witness ==
  /\ pc = "done"
  /\ outputs.column_summary # None
  /\ Len(all_file_reports) = 1
  /\ outputs.column_summary[1]["PUFSVYYR"].avg_retention_when_mapped = Some(3333)
  /\ "PUFSVYYR" \in flagged("LOW RETENTION")
  /\ "PUFSVYYR" \notin flagged("<-- HIGH NULL")
  /\ "PUFHHNUM" \in flagged("ALWAYS UNMAPPED")
  /\ "PUFHHNUM" \in flagged("<-- HIGH NULL")

(* The phase a step may follow, the release year kept from the first
   field to the emission. *)
phase_step ==
  /\ pc = "read" => pc' \in {"read", "infer", "combine"}
  /\ (pc = "read" /\ pc' = "infer") => (df' # None /\ out_df' = None /\ i' = i)
  /\ pc = "infer" => (pc' = "fields" /\ year' # None /\ df' = df /\ out_df' = None)
  /\ pc = "fields" => (pc' = "lock" /\ year' = year /\ month' = month /\ df' = df
                        /\ out_df' # None)
  /\ pc = "lock" => (pc' = "emit" /\ year' = year /\ month' = month /\ df' = df)
  /\ pc = "emit" =>
       /\ pc' = "read"
       /\ i' = i + 1
       /\ df' = None
       /\ \/ /\ Len(all_parquet_files') = Len(all_parquet_files) + 1
             /\ all_parquet_files'[Len(all_parquet_files')].path = files[i].name
             /\ errors' = errors
          \/ /\ Len(errors') = Len(errors) + 1
             /\ errors'[Len(errors')][1] = files[i].name
             /\ all_parquet_files' = all_parquet_files

(* C24: the phases of a release follow one another as read, year/month
   inference, resolution and translation of the fields, schema lock and
   emission; the year does not change from the first field on; a release
   is persisted or has failed before the next one is read. *)
C24_PhaseOrder == [][phase_step]_vars

(* C24 witness: the second release has been read and its year inferred
   after the first one was persisted. *)
C24_Witness ==
  /\ i = 2
  /\ pc = "fields"
  /\ Len(all_parquet_files) = 1
  /\ all_parquet_files[1].path = files[1].name
  /\ year # None

(* C28: after the loop every release is either a processed file or a
   recorded error, and never both, so the two counts add up to the number
   of releases attempted. *)
C28_RunAccounting ==
  pc \in {"combine", "done"} =>
    /\ \A k \in 1..Len(files) :
         (\E p \in 1..Len(all_parquet_files) : all_parquet_files[p].path = files[k].name)
         # (\E e \in 1..Len(errors) : errors[e][1] = files[k].name)
    /\ Len(all_parquet_files) + Len(errors) = Len(attempts)
    /\ outputs.metadata # None =>
         outputs.metadata[1].files_processed + outputs.metadata[1].files_with_errors
           = Len(files)

(* The lists of persisted tables and of diagnostic records describe the
   same releases in the same order, and total_rows is their row total. *)
lockstep ==
  /\ Len(all_parquet_files) = Len(all_file_reports)
  /\ \A k \in 1..Len(all_parquet_files) :
       /\ all_parquet_files[k].path = all_file_reports[k].file
       /\ all_parquet_files[k].table.rows = all_file_reports[k].rows
  /\ total_rows = sum_seq([k \in 1..Len(all_file_reports) |-> all_file_reports[k].rows], 1)

(* A list after a step has the list before it as a prefix. *)
grows(before, after) ==
  /\ Len(before) <= Len(after)
  /\ SubSeq(after, 1, Len(before)) = before

(* C29: after every iteration the two accumulators are in lockstep and
   total_rows is the sum of the recorded row counts; both lists only grow. *)
C29_AccumulatorsInLockstep ==
  /\ [](pc = "read" => lockstep)
  /\ [][/\ grows(all_parquet_files, all_parquet_files')
         /\ grows(all_file_reports, all_file_reports')]_vars

(* C29 witness: after three iterations, one release read with an error, one
   failed and one processed. *)
C29_Witness ==
  /\ pc = "read"
  /\ i = 4
  /\ Len(all_parquet_files) = 1
  /\ Len(errors) = 1
  /\ unreadable # {}
  /\ total_rows > 0

(***************************************************************************)
(* The code space of translate_grade (SpecTranslate)                       *)
(***************************************************************************)

(* C30: for every year <= 2022 and every integer code translate_grade gives
   missing, 0, 2000 or an integer of 10011..64011, and the arithmetic range
   mappings stay in their blocks: 10011..10016 for 110..160 (2017-2018),
   24011..24014 for 310..340 (2012-2016) and for 210..240 (2017-2018). *)
C30_GradeCodeSpace ==
  (/\ call.fn = "translate" /\ call.done /\ call.name = "translate_grade"
   /\ call.year <= 2022 /\ call.code.t = "num") =>
    LET c == call.code.v
        r == call.result
    IN /\ \/ r = NaN
          \/ r.t = "num" /\ (r.v \in {0, 2000} \/ (10011 <= r.v /\ r.v <= 64011))
       /\ (2012 <= call.year /\ call.year <= 2016 /\ 310 <= c /\ c <= 340)
            => (r.t = "num" /\ r.v = 24011 + ((c - 310) \div 10)
                /\ 24011 <= r.v /\ r.v <= 24014)
       /\ (2017 <= call.year /\ call.year <= 2018 /\ 110 <= c /\ c <= 160)
            => (r.t = "num" /\ r.v = 10011 + ((c - 110) \div 10)
                /\ 10011 <= r.v /\ r.v <= 10016)
       /\ (2017 <= call.year /\ call.year <= 2018 /\ 210 <= c /\ c <= 240)
            => (r.t = "num" /\ r.v = 24011 + ((c - 210) \div 10)
                /\ 24011 <= r.v /\ r.v <= 24014)

(* C30 witness: the last code of the widest arithmetic range, in its era. *)
C30_Witness ==
  /\ call.fn = "translate"
  /\ call.done
  /\ call.name = "translate_grade"
  /\ call.year = 2018
  /\ call.code = Num(160)
  /\ call.result = Num(10016)

(***************************************************************************)
(* The configuration tables (SpecFile)                                     *)
(***************************************************************************)

(* C21: every field of OUTPUT_SCHEMA has an entry in COLUMN_PRIORITY, a
   non-empty list whose first element is the field's own name, and every
   key of TRANSLATION_MAP is a field of OUTPUT_SCHEMA; so every field of a
   release gets a diagnostic, and a resolved one names a variant of its own
   list. *)
C21_ConfigurationInvariant ==
  /\ \A k \in 1..Len(OUTPUT_SCHEMA) :
       LET f == OUTPUT_SCHEMA[k]
       IN /\ f \in DOMAIN COLUMN_PRIORITY
          /\ Len(COLUMN_PRIORITY[f]) >= 1
          /\ COLUMN_PRIORITY[f][1] = f
  /\ DOMAIN TRANSLATION_MAP \subseteq Range(OUTPUT_SCHEMA)
  /\ col_reports # None =>
       /\ DOMAIN col_reports[1] = Range(OUTPUT_SCHEMA)
       /\ \A f \in Range(OUTPUT_SCHEMA) :
            col_reports[1][f].source_col # None =>
              col_reports[1][f].source_col[1]
                \in {upper(COLUMN_PRIORITY[f][v]) : v \in 1..Len(COLUMN_PRIORITY[f])}

(* C21 witness: a release where a field is resolved through its own name,
   the first element of its list, and another through a later variant. *)
C21_Witness ==
  /\ col_reports # None
  /\ col_reports[1]["PUFSVYMO"].source_col = Some("PUFSVYMO")
  /\ col_reports[1]["PUFC06_MSTAT"].source_col = Some("C08_MSTAT")

(***************************************************************************)
(* The diagnostic counts of the per-field step (SpecField)                 *)
(***************************************************************************)

(* The raw column the field was resolved to, as sequence of cells; empty
   when the field is unmapped. *)
resolved_cells ==
  LET got == get_column(call.frame, call.target, col_map_upper_of(call.frame))
  IN IF got.col = None THEN << >> ELSE got.col[1].vals

(* A raw cell that is a number or the text of a number. *)
parses(c) == c.t \in {"num", "numstr"}

(* The rows of the resolved column whose raw cell parses as a number. *)
parsed_rows == {k \in 1..Len(resolved_cells) : parses(resolved_cells[k])}

(* The rows whose raw cell is not missing and does not parse. *)
unparsed_rows == {k \in 1..Len(resolved_cells) :
                    notna(resolved_cells[k]) /\ ~parses(resolved_cells[k])}

(* C25: raw_nonnull_count >= final_nonnull_count >= 0; translation_loss is
   the non-null count after numeric cleaning minus final_nonnull_count,
   never negative, and 0 for a field without translator and for an UNMAPPED
   field; null_count + final_nonnull_count is the row count; a field that
   is not UNMAPPED has raw_nonnull_count >= 1. *)
C25_DiagnosticCounts ==
  (call.fn = "field" /\ call.done) =>
    LET rep == call.result[1].report
    IN /\ rep.raw_nonnull_count >= rep.final_nonnull_count
       /\ rep.final_nonnull_count >= 0
       /\ rep.final_nonnull_count = notna_sum(call.result[1].column)
       /\ rep.translation_loss >= 0
       /\ (rep.status # "UNMAPPED" /\ call.target \in DOMAIN TRANSLATION_MAP)
            => rep.translation_loss = Cardinality(parsed_rows) - rep.final_nonnull_count
       /\ (rep.status = "UNMAPPED" \/ call.target \notin DOMAIN TRANSLATION_MAP)
            => rep.translation_loss = 0
       /\ rep.null_count + rep.final_nonnull_count = call.frame.rows
       /\ rep.status # "UNMAPPED" => rep.raw_nonnull_count >= 1

(* C25 witness: a translated field that loses a value to cleaning and
   another one to translation. *)
C25_Witness ==
  /\ call.fn = "field" /\ call.done
  /\ call.target = "PUFC06_MSTAT"
  /\ call.year = 2009
  /\ call.result[1].report.translation_loss >= 1
  /\ call.result[1].report.raw_nonnull_count
       > call.result[1].report.final_nonnull_count + call.result[1].report.translation_loss

(* C27: a raw value that does not parse as a number is missing in the
   output; it lowers final_nonnull_count under raw_nonnull_count and is not
   counted in translation_loss, which counts the parsed values the
   translator rejected; without translator every parsed value is passed
   through unchanged. *)
C27_UnparseableBecomesMissing ==
  (call.fn = "field" /\ call.done /\ call.result[1].report.status # "UNMAPPED") =>
    LET rep == call.result[1].report
        out == call.result[1].column
    IN /\ \A k \in unparsed_rows : out[k] = NaN
       /\ rep.raw_nonnull_count - Cardinality(unparsed_rows)
            = rep.final_nonnull_count + rep.translation_loss
       /\ rep.translation_loss = Cardinality({k \in parsed_rows : out[k] = NaN})
       /\ unparsed_rows # {} => rep.final_nonnull_count < rep.raw_nonnull_count
       /\ call.target \notin DOMAIN TRANSLATION_MAP =>
            \A k \in parsed_rows : out[k] = Num(resolved_cells[k].v)

(* C27 witness: a translated field resolved to a column of four texts and
   one number the era's table does not hold. *)
C27_Witness ==
  /\ call.fn = "field" /\ call.done
  /\ call.target = "PUFC06_MSTAT"
  /\ call.year = 2009
  /\ Cardinality(unparsed_rows) = 4
  /\ Cardinality(parsed_rows) = 1
  /\ call.result[1].report.raw_nonnull_count = 5
  /\ call.result[1].report.final_nonnull_count = 0
  /\ call.result[1].report.translation_loss = 1

(***************************************************************************)
(* The employment status of harmonize.py (SpecHarmonize)                   *)
(***************************************************************************)

(* The value of a harmonized variable in a row. *)
row_value(h, r) == IF h.kind = "NA" THEN NaN ELSE h.vals[r]

(* The first non-null value of a row among the columns of `order` the data
   holds, missing when there is none. *)
first_non_null(frame, order, r) ==
  LET filled == {k \in 1..Len(order) :
                   /\ order[k] \in Range(frame.columns)
                   /\ notna(frame.data[order[k]].vals[r])}
  IN IF filled = {} THEN NaN
     ELSE frame.data[order[CHOOSE k \in filled : \A j \in filled : k <= j]].vals[r]

(* C22: when the data has no PUFNEWEMPSTAT column, the harmonized
   PUFNEWEMPSTAT is, in every row, the first non-null value among NEWEMPST,
   CEMPST2, CEMPST1, ANSOEMPSTAT, in that order. *)
C22_EmploymentStatusFirstNonNull ==
  (/\ call.fn = "harmonize" /\ call.done
   /\ "PUFNEWEMPSTAT" \notin Range(call.df.columns)) =>
    \A r \in 1..call.df.rows :
      row_value(call.harmonized["PUFNEWEMPSTAT"], r)
        = first_non_null(call.df, PRECEDENCE_RULES["PUFNEWEMPSTAT"].order, r)

(***************************************************************************)
(* Order independence of the per-field step (SpecOrder)                    *)
(***************************************************************************)

(* C26: whatever the order in which the fields are processed, the raw frame
   and the year stay as they were, and the output column and the diagnostic
   of every processed field are those of the loop in schema order. *)
C26_OrderIndependent ==
  (call.fn = "order" /\ call.st # << >>) =>
    LET cmap == col_map_upper_of(call.frame)
        in_schema_order == map_fields(call.frame, cmap, call.year, empty_table(call.frame.rows))
    IN /\ call.st.df = call.frame
       /\ call.st.year = call.year
       /\ DOMAIN call.st.col_reports = OrderTargets \ call.todo
       /\ Range(call.st.out_df.columns) = OrderTargets \ call.todo
       /\ \A t \in OrderTargets \ call.todo :
            /\ call.st.out_df.data[t] = in_schema_order.data[t]
            /\ call.st.col_reports[t]
                 = process_field(call.frame, cmap, t, call.year, call.frame.rows).report

(* C26 witness: the marital status translated after the survey year was
   resolved from a column of another year, in a release of the first era
   holding a code of the later eras. *)
C26_Witness ==
  /\ call.fn = "order"
  /\ call.st # << >>
  /\ call.todo = {}
  /\ call.year = 2009
  /\ call.st.out_df.columns[1] = "PUFSVYYR"
  /\ call.st.col_reports["PUFSVYYR"].source_col = Some("PUFSVYYR")
  /\ call.st.col_reports["PUFSVYYR"].final_nonnull_count >= 1
  /\ call.st.col_reports["PUFC06_MSTAT"].translation_loss >= 1

=============================================================================
